---- MODULE Spec2Model ----
(***************************************************************************)
(* Verification model of the radical.pilot on-node agent                   *)
(* (src/radical/pilot/agent/radical-pilot-agent-multicore.py).             *)
(*                                                                         *)
(* Part I   : the schedulers (SchedulerContinuous, SchedulerTorus) and the *)
(*            LRMS data they are configured from.                          *)
(* Part II  : two agent runs fed the same TORQUE node file (determinism).  *)
(* Part III : the worker pipeline (supervisor, exec worker, update worker, *)
(*            stage-in worker) against the coordination store.             *)
(*                                                                         *)
(* Python lists are modelled as TLA+ sequences, so a Python index i is the *)
(* TLA+ position i+1.  The slot history (a log of map snapshots) never     *)
(* feeds back into an allocation decision and is not modelled.             *)
(***************************************************************************)
EXTENDS Integers, Sequences, FiniteSets, TLC

(***************************************************************************)
(* Program constants                                                       *)
(***************************************************************************)
FREE == "Free"
BUSY == "Busy"

SCHEDULER_NAME_CONTINUOUS == "CONTINUOUS"
SCHEDULER_NAME_TORUS == "TORUS"

STATE_NEW == "New"
DONE == "Done"
CANCELED == "Canceled"
FAILED == "Failed"
PENDING_EXECUTION == "PendingExecution"
ALLOCATING == "Allocating"
EXECUTING == "Executing"
STAGING_INPUT == "StagingInput"
STAGING_OUTPUT == "StagingOutput"
PENDING == "Pending"
LAUNCHING == "Launching"
ACTIVE == "Active"

COMMAND_CANCEL_PILOT == "Cancel_Pilot"
COMMAND_CANCEL_COMPUTE_UNIT == "Cancel_Compute_Unit"
COMMAND_KEEP_ALIVE == "Keep_Alive"
CANCELING == "Canceling"

LINK == "Link"
COPY == "Copy"
MOVE == "Move"
TRANSFER == "Transfer"

BGQ_CORES_PER_NODE == 16
BGQ_DIMENSION_LABELS == <<"A", "B", "C", "D", "E">>
BGQ_MAPPING == <<"A", "B", "C", "D", "E">>
BGQ_SUPPORTED_SUB_BLOCK_SIZES == {1, 2, 4, 8, 16, 32, 64, 128, 256, 512}

(***************************************************************************)
(* Bounds of the model                                                     *)
(***************************************************************************)
NumNodes == 2
CoresPerNode == 2
MaxTorusNodes == 5
BlockLenE == 2
MaxOutstanding == 2
MaxDirectives == 2
MaxAttempts == 2

\* commands that can be in the pilot document at once
MaxCommands == 2
MaxRequests == 4
MaxArgLen == 3
MaxArgs == 2
NumWorkers == 2

\* node names handed out by the batch system, in declared order
NodeName(i) == <<"node", i>>
DeclaredNodes == [i \in 1..NumNodes |-> NodeName(i)]

\* shape of the BG/Q block reported by 'llq -l' ("BG Shape Allocated")
BlockShape == [A |-> 1, B |-> 1, C |-> 1, D |-> 2, E |-> BlockLenE]

\* core counts a compute unit may ask the continuous scheduler for
ContRequests == 1..(NumNodes * CoresPerNode + 1)

\* core counts a compute unit may ask the torus scheduler for: whole nodes
\* and half-node remainders
TorusRequests == {n * BGQ_CORES_PER_NODE + r : n \in 0..MaxTorusNodes, r \in {0, 8}} \ {0}

(***************************************************************************)
(* Generic helpers                                                         *)
(***************************************************************************)
SetMin(S) == CHOOSE x \in S : \A y \in S : x <= y

Range(s) == {s[i] : i \in DOMAIN s}


\* Python's None for an index / offset
NoIndex == -1

(***************************************************************************)
(* Part I.a  SchedulerContinuous                                           *)
(***************************************************************************)

\* SchedulerContinuous.configure: one entry per node, in node_list order
ContConfigure(node_list, cores_per_node) ==
    [i \in DOMAIN node_list |->
        [node |-> node_list[i], cores |-> [c \in 1..cores_per_node |-> FREE]]]

\* _find_sublist: index of the first occurrence of needle in haystack
find_sublist(haystack, needle) ==
    LET n == Len(needle)
        hits == {i \in 0..(Len(haystack) - n) :
                    SubSeq(haystack, i + 1, i + n) = needle}
    IN  IF hits = {} THEN NoIndex ELSE SetMin(hits)

\* _find_cores_cont
find_cores_cont(slot_cores, cores_requested, status) ==
    find_sublist(slot_cores, [i \in 1..cores_requested |-> status])

\* ['%s:%d' % (node, core) for core in range(lo, hi)]
NodeCores(node, lo, hi) == [i \in 1..(hi - lo) |-> <<node, lo + i - 1>>]

NoSlots == [none |-> TRUE, task_slots |-> <<>>]
SomeSlots(ts) == [none |-> FALSE, task_slots |-> ts]

\* _find_slots_single_cont: first node (list order) holding a free run
find_slots_single_cont(slots, cores_requested) ==
    LET hit == {i \in DOMAIN slots :
                   find_cores_cont(slots[i].cores, cores_requested, FREE) # NoIndex}
    IN  IF hit = {} THEN NoSlots
        ELSE LET i == SetMin(hit)
                 off == find_cores_cont(slots[i].cores, cores_requested, FREE)
             IN  SomeSlots(NodeCores(slots[i].node, off, off + cores_requested))

\* "Glue all slot core lists together"
RECURSIVE GlueCores(_, _)
GlueCores(slots, i) ==
    IF i > Len(slots) THEN <<>> ELSE slots[i].cores \o GlueCores(slots, i + 1)

\* "Add all cores from 'middle' slots"
RECURSIVE MiddleSlots(_, _, _, _)
MiddleSlots(slots, lo, hi, cpn) ==
    IF lo >= hi THEN <<>>
    ELSE NodeCores(slots[lo + 1].node, 0, cpn) \o MiddleSlots(slots, lo + 1, hi, cpn)

\* _find_slots_multi_cont: first free run in the glued core vector
find_slots_multi_cont(slots, cores_requested, cores_per_node) ==
    LET all_slot_cores == GlueCores(slots, 1)
        all_slots_first_core_offset ==
            find_cores_cont(all_slot_cores, cores_requested, FREE)
        first_slot_index == all_slots_first_core_offset \div cores_per_node
        first_slot_core_offset == all_slots_first_core_offset % cores_per_node
        all_slots_last_core_offset ==
            (first_slot_index * cores_per_node) + first_slot_core_offset
                + cores_requested - 1
        last_slot_index == all_slots_last_core_offset \div cores_per_node
        last_slot_core_offset == all_slots_last_core_offset % cores_per_node
        first_node == slots[first_slot_index + 1].node
        last_node == slots[last_slot_index + 1].node
    IN  IF all_slots_first_core_offset = NoIndex THEN NoSlots
        ELSE SomeSlots(
                 NodeCores(first_node, first_slot_core_offset, cores_per_node)
              \o MiddleSlots(slots, first_slot_index + 1, last_slot_index, cores_per_node)
              \o NodeCores(last_node, 0, last_slot_core_offset + 1))

\* position of the first entry of the slot list whose node name matches
SlotEntry(slots, slot_node) == SetMin({i \in DOMAIN slots : slots[i].node = slot_node})

\* _change_slot_states: set every listed core of the first matching node
RECURSIVE change_slot_states(_, _, _)
change_slot_states(slots, task_slots, new_state) ==
    IF task_slots = <<>> THEN slots
    ELSE LET e == SlotEntry(slots, Head(task_slots)[1])
             c == Head(task_slots)[2] + 1
         IN  change_slot_states(
                 [slots EXCEPT ![e].cores[c] = new_state],
                 Tail(task_slots), new_state)

\* _acquire_slots: search, then mark BUSY what was found
acquire_slots(slots, cores_requested, single_node, cores_per_node) ==
    LET ts == IF single_node
              THEN find_slots_single_cont(slots, cores_requested)
              ELSE find_slots_multi_cont(slots, cores_requested, cores_per_node)
    IN  [ret |-> ts,
         slots |-> IF ts.none THEN slots
                   ELSE change_slot_states(slots, ts.task_slots, BUSY)]

\* SchedulerContinuous.allocate_slot
cont_allocate_slot(slots, cores_requested, cores_per_node) ==
    acquire_slots(slots, cores_requested, cores_requested < cores_per_node,
                  cores_per_node)

\* a release that skips the first entry of the slot
cont_release_slot_skip(slots, task_slots) ==
    change_slot_states(slots, Tail(task_slots), FREE)

\* SchedulerContinuous.release_slot
cont_release_slot(slots, task_slots) == change_slot_states(slots, task_slots, FREE)

(***************************************************************************)
(* Part I.b  LoadLevelerLRMS (BG/Q) and SchedulerTorus                     *)
(***************************************************************************)

\* _shape2num_nodes
shape2num_nodes(shape) == shape.A * shape.B * shape.C * shape.D * shape.E

\* location of the index-th node of _bgq_get_block's nested loops (E fastest)
BlockLoc(shape, index) ==
    [E |-> index % shape.E,
     D |-> (index \div shape.E) % shape.D,
     C |-> (index \div (shape.E * shape.D)) % shape.C,
     B |-> (index \div (shape.E * shape.D * shape.C)) % shape.B,
     A |-> index \div (shape.E * shape.D * shape.C * shape.B)]

\* _bgq_get_block: [index, location, status] per node, all FREE
bgq_get_block(shape) ==
    [i \in 1..shape2num_nodes(shape) |->
        [index |-> i - 1, coor |-> BlockLoc(shape, i - 1), status |-> FREE]]

TablePut(table, n, shape) ==
    [k \in (DOMAIN table) \cup {n} |-> IF k = n THEN shape ELSE table[k]]

\* _bgq_create_sub_block_shape_table: grow a 1x1x1x1x1 shape along the
\* mapping from its right-most dimension, recording every supported size
RECURSIVE ShapeTableFrom(_, _, _, _)
ShapeTableFrom(block_shape, d, sub_block_shape, table) ==
    IF d = 0 THEN table
    ELSE LET dim == BGQ_MAPPING[d]
             num_nodes == shape2num_nodes(sub_block_shape)
             t2 == IF num_nodes \in BGQ_SUPPORTED_SUB_BLOCK_SIZES
                   THEN TablePut(table, num_nodes, sub_block_shape)
                   ELSE table
         IN  IF sub_block_shape[dim] >= block_shape[dim]
             THEN ShapeTableFrom(block_shape, d - 1, sub_block_shape, t2)
             ELSE ShapeTableFrom(block_shape, d,
                      [sub_block_shape EXCEPT ![dim] = @ + 1], t2)

bgq_create_sub_block_shape_table(block_shape) ==
    ShapeTableFrom(block_shape, Len(BGQ_MAPPING),
                   [A |-> 1, B |-> 1, C |-> 1, D |-> 1, E |-> 1], <<>>)

\* _alloc_sub_block, the search: offsets 0, n, 2n, ... ; a window is taken
\* unless one of its nodes inside the block is BUSY
RECURSIVE alloc_scan(_, _, _)
alloc_scan(block, num_nodes, offset) ==
    IF offset % num_nodes # 0 THEN [exc |-> "Exception", offset |-> NoIndex]
    ELSE LET not_free == \E peek \in 0..(num_nodes - 1) :
                            /\ offset + peek < Len(block)
                            /\ block[offset + peek + 1].status = BUSY
         IN  IF not_free
             THEN IF offset + num_nodes < Len(block)
                  THEN alloc_scan(block, num_nodes, offset + num_nodes)
                  ELSE [exc |-> "", offset |-> NoIndex]
             ELSE [exc |-> "", offset |-> offset]

\* _alloc_sub_block, "Then mark the nodes busy": range(num_nodes) from offset
mark_busy(block, offset, num_nodes) ==
    [i \in DOMAIN block |->
        IF (i - 1) \in offset..(offset + num_nodes - 1)
        THEN [block[i] EXCEPT !.status = BUSY] ELSE block[i]]

\* _alloc_sub_block: the marking loop stops with IndexError at the first
\* node past the end of the block, after marking the ones before it
alloc_sub_block(block, num_nodes) ==
    IF num_nodes = 0
    THEN [exc |-> "ZeroDivisionError", offset |-> NoIndex, block |-> block]
    ELSE LET r == alloc_scan(block, num_nodes, 0)
         IN  IF r.exc # "" \/ r.offset = NoIndex
             THEN [exc |-> r.exc, offset |-> NoIndex, block |-> block]
             ELSE [exc |-> IF r.offset + num_nodes > Len(block)
                           THEN "IndexError" ELSE "",
                   offset |-> r.offset,
                   block |-> mark_busy(block, r.offset, num_nodes)]

NoTorusSlot ==
    [corner |-> [A |-> 0, B |-> 0, C |-> 0, D |-> 0, E |-> 0],
     shape  |-> [A |-> 0, B |-> 0, C |-> 0, D |-> 0, E |-> 0]]

\* SchedulerTorus.allocate_slot: num_nodes is cores_requested / cores_per_node
\* (the rounded-up num_cores is only logged); the shape is looked up after
\* the nodes were marked
torus_allocate_slot(block, shape_table, cores_requested, cores_per_node) ==
    LET num_nodes == cores_requested \div cores_per_node
        r == alloc_sub_block(block, num_nodes)
    IN  IF r.exc # ""
        THEN [exc |-> r.exc, none |-> TRUE, slot |-> NoTorusSlot, block |-> r.block]
        ELSE IF r.offset = NoIndex
        THEN [exc |-> "", none |-> TRUE, slot |-> NoTorusSlot, block |-> r.block]
        ELSE IF num_nodes \notin DOMAIN shape_table
        THEN [exc |-> "KeyError", none |-> TRUE, slot |-> NoTorusSlot, block |-> r.block]
        ELSE [exc |-> "", none |-> FALSE,
              slot |-> [corner |-> r.block[r.offset + 1].coor,
                        shape |-> shape_table[num_nodes]],
              block |-> r.block]

\* corner2offset: position of the node with that location, else len(block)
corner2offset(block, corner) ==
    LET hit == {i \in DOMAIN block : block[i].coor = corner}
    IN  IF hit = {} THEN Len(block) ELSE SetMin(hit) - 1

\* nodes of the window [offset, offset+num_nodes) that _free_cores reaches
\* before it stops: all of them, or those before the first node that is
\* not BUSY (AssertionError) or past the block (IndexError)
FreeStop(block, offset, num_nodes) ==
    LET bad == {peek \in 0..(num_nodes - 1) :
                   \/ offset + peek >= Len(block)
                   \/ block[offset + peek + 1].status # BUSY}
    IN  IF bad = {} THEN num_nodes ELSE SetMin(bad)

\* _free_cores
free_cores(block, corner, shape) ==
    LET num_nodes == shape2num_nodes(shape)
        offset == corner2offset(block, corner)
        stop == FreeStop(block, offset, num_nodes)
    IN  [exc |-> IF stop = num_nodes THEN ""
                 ELSE IF offset + stop >= Len(block) THEN "IndexError"
                 ELSE "AssertionError",
         block |-> [i \in DOMAIN block |->
                      IF (i - 1) \in offset..(offset + stop - 1)
                      THEN [block[i] EXCEPT !.status = FREE] ELSE block[i]]]

\* SchedulerTorus.release_slot
torus_release_slot(block, slot) == free_cores(block, slot.corner, slot.shape)

(***************************************************************************)
(* State                                                                   *)
(***************************************************************************)
VARIABLES
    scheduler_name,   \* which Scheduler subclass Scheduler.create built
    slots,            \* SchedulerContinuous._slots
    cont_live,        \* continuous slots handed out and not yet released
    cont_call,        \* the last call made to the continuous scheduler
    torus_block,      \* lrms.torus_block
    torus_live,       \* torus slots handed out and not yet released
    torus_call,       \* the last call made to the torus scheduler
    torque_env,       \* PBS_* / SAGA_PPN of the batch job (0 = unset)
    torque_nodes,     \* the lines of $PBS_NODEFILE
    run_a,            \* one agent run configured from that input
    run_b,            \* a second agent run configured from the same input
    cu_desc,          \* per CU: description.cores, Agent_Input_Directives,
                      \* Agent_Output_Directives
    cu,               \* the store's <session>.cu collection: state, statehistory,
                      \* started, exit_code
    update_queue,     \* Agent._update_queue
    bulk,             \* UpdateWorker: the ordered bulk of <session>.cu
    executed,         \* how often execute() of that bulk object has raised
    execution_queue,  \* Agent._execution_queue
    put_pending,      \* how many of its last items the queue's feeder still holds
    stagein_queue,    \* Agent._stagein_queue
    command_queue,    \* Agent._command_queue
    cuids_to_cancel,  \* ExecWorker._cuids_to_cancel
    running_tasks,    \* ExecWorker._running_tasks
    proc,             \* the child process of each CU
    pilot_slots,      \* the core map of the pilot's scheduler
    exec_alive,       \* the exec worker thread is still in its loop
    ledger,           \* per CU: allocate, release and spawn calls made for it,
                      \* and its transitions in the order the agent made them
    pilot,            \* the pilot document: state, statehistory, who wrote it
    main_thread,      \* the main thread: where it is, why and how it left
    commands,         \* the pilot document's COMMAND_FIELD
    stagein_alive,    \* the stage-in worker thread is still in its loop
    log_message,      \* StageinWorker.run: its local log_message is bound
    stageout_alive,   \* the stage-out worker thread is still in its loop
    logmessage,       \* StageoutWorker.run: its local logmessage is bound
    staging,          \* the directives of the CU a staging worker handled last
    stageout_queue,   \* Agent._stageout_queue, read by the stage-out worker
    output_staging_queue,  \* Agent._output_staging_queue, written by the exec worker
    agent_0,          \* Agent_0: its sub-agents, _final_cause and final state
    lm,               \* a launch method class, its environment, its construction
    update_worker,    \* an UpdateWorker on its own: queue, _cinfo, the local coll,
                      \* the age of each bulk, what each collection was sent
    spawner,          \* a spawn() call: the task's arguments, the argument string
    ibrun,            \* an IBRun.construct_command call: its inputs, its outcome
    ftw               \* the InputFileTransferWorkers of a session and its
                      \* units collection

schedVars == <<scheduler_name, slots, cont_live, cont_call,
               torus_block, torus_live, torus_call>>

detVars == <<torque_env, torque_nodes, run_a, run_b>>

pilotVars == <<pilot, main_thread, commands>>

outVars == <<stageout_queue, output_staging_queue>>

stageVars == <<stagein_alive, log_message, stageout_alive, logmessage, staging, outVars>>

agentVars == <<cu_desc, cu, update_queue, bulk, executed, execution_queue, put_pending,
               stagein_queue,
               command_queue, cuids_to_cancel, running_tasks, proc,
               pilot_slots, exec_alive, ledger, pilotVars, stageVars>>

\* components that are checked on their own
extVars == <<update_worker, spawner, ibrun, ftw>>

subVars == <<agent_0, lm, extVars>>

vars == <<schedVars, detVars, agentVars, subVars>>

\* the CUs of the workload, in the order a cursor of the store returns them
UnitIds == <<"cu.a", "cu.b">>

Units == Range(UnitIds)

\* the exit status of a thread that has not left (a status n is <<n>>)
NoExit == <<>>

\* what a staging worker did with the directives of a CU: the position of
\* the directive that raised (0 if none), which side effects took place and
\* the state it had the store record for each directive; first holds what
\* was recorded by the first run once the worker has run the CU again
NoStaging == [worker |-> "none", uid |-> "", directives |-> <<>>, failed |-> 0,
              performed |-> <<>>, reported |-> <<>>, first |-> <<>>]

PipelineIdle ==
    /\ cu_desc = [u \in {} |-> 0]
    /\ cu = [u \in {} |-> 0]
    /\ update_queue = <<>>
    /\ bulk = <<>>
    /\ executed = 0
    /\ execution_queue = <<>>
    /\ put_pending = 0
    /\ stagein_queue = <<>>
    /\ command_queue = <<>>
    /\ cuids_to_cancel = {}
    /\ running_tasks = <<>>
    /\ proc = [u \in {} |-> 0]
    /\ pilot_slots = <<>>
    /\ exec_alive = FALSE
    /\ ledger = [u \in {} |-> 0]
    /\ pilot = [state |-> "", statehistory |-> <<>>, writers |-> <<>>]
    /\ main_thread = [phase |-> "none", cause |-> "", raised |-> NoExit,
                      exit_code |-> NoExit]
    /\ commands = <<>>

StageIdle ==
    /\ stagein_alive = FALSE
    /\ log_message = FALSE
    /\ stageout_alive = FALSE
    /\ logmessage = FALSE
    /\ staging = NoStaging
    /\ stageout_queue = <<>>
    /\ output_staging_queue = <<>>

\* no UpdateWorker on its own, no spawn() call, no construct_command call,
\* no file transfer workers
NoUpdateWorker ==
    update_worker = [queue |-> <<>>, cinfo |-> <<>>, coll |-> "", sent |-> <<>>]

NoSpawner == spawner = [arguments |-> <<>>, task_args_string |-> <<>>, called |-> FALSE]

NoIBRun == ibrun = [called |-> FALSE]

NoFTW == ftw = [units |-> <<>>, workers |-> <<>>]

\* none of the components that are checked on their own is constructed
ExtIdle ==
    /\ NoUpdateWorker
    /\ NoSpawner
    /\ NoIBRun
    /\ NoFTW

\* Agent_0 is not constructed, no launch method either
NoSubAgents ==
    /\ agent_0 = [agents |-> <<>>, phase |-> "none", final_cause |-> "None", state |-> ""]
    /\ lm = [variant |-> "", env |-> <<>>, constructed |-> "no", raised |-> "",
             launch_command |-> <<>>]

SubIdle ==
    /\ NoSubAgents
    /\ ExtIdle

AgentIdle ==
    /\ PipelineIdle
    /\ StageIdle
    /\ SubIdle

shape_table == bgq_create_sub_block_shape_table(BlockShape)

NoContCall ==
    [op |-> "none", request |-> 0, none |-> TRUE, task_slots |-> <<>>,
     before |-> <<>>, inverse |-> FALSE, prior |-> <<>>]

NoTorusCall ==
    [op |-> "none", request |-> 0, exc |-> "", none |-> TRUE,
     slot |-> NoTorusSlot, before |-> <<>>, inverse |-> FALSE, prior |-> <<>>]

(***************************************************************************)
(* Part II  TORQUELRMS.configure and two runs fed the same requests        *)
(***************************************************************************)

\* the node file names each node once per core, node after node
RECURSIVE NodefileOf(_, _)
NodefileOf(order, cpn) ==
    IF order = <<>> THEN <<>>
    ELSE [c \in 1..cpn |-> Head(order)] \o NodefileOf(Tail(order), cpn)

TorqueEnvs ==
    {[PBS_NCPUS |-> 0, PBS_NUM_NODES |-> NumNodes, PBS_NUM_PPN |-> CoresPerNode, SAGA_PPN |-> 0],
     [PBS_NCPUS |-> NumNodes * CoresPerNode, PBS_NUM_NODES |-> 0, PBS_NUM_PPN |-> 0, SAGA_PPN |-> CoresPerNode],
     [PBS_NCPUS |-> 0, PBS_NUM_NODES |-> 0, PBS_NUM_PPN |-> 0, SAGA_PPN |-> CoresPerNode],
     [PBS_NCPUS |-> 0, PBS_NUM_NODES |-> 0, PBS_NUM_PPN |-> 0, SAGA_PPN |-> 0]}

\* TORQUELRMS.configure: torque_cores_per_node after the $SAGA_PPN fallback;
\* int(None) raises when neither variable is set
torque_ppn(env) ==
    IF env.PBS_NUM_PPN \in {0, 1}
    THEN (IF env.SAGA_PPN # 0 THEN env.SAGA_PPN ELSE env.PBS_NUM_PPN)
    ELSE env.PBS_NUM_PPN

torque_configure_ok(env) == ~(env.PBS_NUM_PPN = 0 /\ env.SAGA_PPN = 0)

\* TORQUELRMS.configure: self.cores_per_node
torque_cores_per_node(env, nodes) ==
    IF env.PBS_NUM_NODES # 0 /\ torque_ppn(env) # 0 THEN torque_ppn(env)
    ELSE IF env.PBS_NCPUS # 0 THEN env.PBS_NCPUS
    ELSE Len(nodes) \div Cardinality(Range(nodes))

\* TORQUELRMS.configure: list(set(torque_nodes)); a set iterates in an order
\* of its own, so the list is some arrangement of the unique names
torque_node_lists(nodes) ==
    {l \in [1..Cardinality(Range(nodes)) -> Range(nodes)] : Range(l) = Range(nodes)}

\* the unique names in the order the node file declares them
RECURSIVE DeclaredOrder(_)
DeclaredOrder(nodes) ==
    IF nodes = <<>> THEN <<>>
    ELSE LET rest == DeclaredOrder(SubSeq(nodes, 1, Len(nodes) - 1))
             x == nodes[Len(nodes)]
         IN  IF x \in Range(rest) THEN rest ELSE Append(rest, x)

NoRun == [ok |-> FALSE, cores_per_node |-> 0, node_list |-> <<>>, slots |-> <<>>,
          live |-> <<>>, last |-> NoSlots]

\* LRMS.create + Scheduler.create of one run
RunConfigured(env, nodes, node_list) ==
    IF ~torque_configure_ok(env) THEN NoRun
    ELSE [ok |-> TRUE,
          cores_per_node |-> torque_cores_per_node(env, nodes),
          node_list |-> node_list,
          slots |-> ContConfigure(node_list, torque_cores_per_node(env, nodes)),
          live |-> <<>>,
          last |-> NoSlots]

DetIdle ==
    /\ torque_env = CHOOSE e \in TorqueEnvs : e.PBS_NUM_PPN # 0
    /\ torque_nodes = <<>>
    /\ run_a = NoRun
    /\ run_b = NoRun

SchedIdle ==
    /\ scheduler_name = SCHEDULER_NAME_CONTINUOUS
    /\ slots = <<>>
    /\ cont_live = {}
    /\ cont_call = NoContCall
    /\ torus_block = <<>>
    /\ torus_live = {}
    /\ torus_call = NoTorusCall

InitDet ==
    /\ SchedIdle
    /\ AgentIdle
    /\ torque_env \in TorqueEnvs
    /\ torque_nodes = NodefileOf(DeclaredNodes, CoresPerNode)
    /\ \E la \in torque_node_lists(torque_nodes) :
           run_a = RunConfigured(torque_env, torque_nodes, la)
    /\ \E lb \in torque_node_lists(torque_nodes) :
           run_b = RunConfigured(torque_env, torque_nodes, lb)

\* one run serving allocate_slot(cores_requested)
RunAllocate(run, cores_requested) ==
    LET r == cont_allocate_slot(run.slots, cores_requested, run.cores_per_node)
    IN  [run EXCEPT !.slots = r.slots,
                    !.live = IF r.ret.none THEN @ ELSE Append(@, r.ret.task_slots),
                    !.last = r.ret]

RemoveAt(seq, i) == SubSeq(seq, 1, i - 1) \o SubSeq(seq, i + 1, Len(seq))

\* one run serving release_slot of its i-th outstanding slot
RunRelease(run, i) ==
    IF i > Len(run.live) THEN run
    ELSE [run EXCEPT !.slots = cont_release_slot(@, run.live[i]),
                     !.live = RemoveAt(@, i),
                     !.last = NoSlots]

\* both runs receive the same allocate request
DetAllocate(cores_requested) ==
    /\ run_a.ok /\ run_b.ok
    /\ Len(run_a.live) < MaxOutstanding /\ Len(run_b.live) < MaxOutstanding
    /\ run_a' = RunAllocate(run_a, cores_requested)
    /\ run_b' = RunAllocate(run_b, cores_requested)
    /\ UNCHANGED <<schedVars, torque_env, torque_nodes, agentVars, subVars>>

\* both runs receive the same release request
DetRelease(i) ==
    /\ run_a.ok /\ run_b.ok
    /\ i <= Len(run_a.live) \/ i <= Len(run_b.live)
    /\ run_a' = RunRelease(run_a, i)
    /\ run_b' = RunRelease(run_b, i)
    /\ UNCHANGED <<schedVars, torque_env, torque_nodes, agentVars, subVars>>

NextDet ==
    \/ \E k \in ContRequests : DetAllocate(k)
    \/ \E i \in 1..MaxOutstanding : DetRelease(i)

SpecDet == InitDet /\ [][NextDet]_vars

\* C5: fed the same node file and the same requests, two runs return the
\* same slot at every step, and ties go by the order in which the node file
\* declares the nodes: a slot handed out by an empty pilot starts on the
\* first declared node.
Determinism ==
    (run_a.ok /\ run_b.ok)
    => /\ run_a.last = run_b.last
       /\ \A run \in {run_a, run_b} :
             (~run.last.none /\ Len(run.live) = 1)
             => run.last.task_slots[1][1] = DeclaredOrder(torque_nodes)[1]

(***************************************************************************)
(* Part III  The worker pipeline against the coordination store            *)
(*                                                                         *)
(* One action is one iteration of a worker's loop.  The pilot has a single *)
(* node of CoresPerNode cores under the continuous scheduler.  CUs carry   *)
(* output directives in SpecOutput only, sandboxes fail in SpecRouting     *)
(* only.  A store write of the exec worker may fail while a task is        *)
(* launched; the bulks of the update worker fail in SpecUpdate only; every *)
(* other store write succeeds.                                             *)
(***************************************************************************)

\* the Agent_Output_Directives a CU may carry: none, or one copy to an
\* absolute target
OutputCases == {<<>>, <<[action |-> COPY, absolute |-> TRUE, fs_ok |-> TRUE]>>}

UnitDescriptions ==
    [cores : {1, CoresPerNode}, Agent_Input_Directives : BOOLEAN,
     Agent_Output_Directives : OutputCases]

TerminalStates == {DONE, FAILED, CANCELED}

\* one update request: the "$set state" of the request ("" when it sets no
\* state) and whether it pushes that state onto statehistory
UpdateRequest(uid, state, push) == [uid |-> uid, state |-> state, push |-> push]

\* collection.update of one CU document: $set state, $push statehistory
StoreWrite(coll, uid, state, push) ==
    IF state = "" THEN coll
    ELSE [coll EXCEPT ![uid].state = state,
                      ![uid].statehistory = IF push THEN Append(@, state) ELSE @]

\* ExecWorker._update_tasks for one task: state, started, exit_code and
\* statehistory
update_tasks(coll, uid, state, started, exit_code) ==
    [coll EXCEPT ![uid].state = state,
                 ![uid].started = started,
                 ![uid].exit_code = exit_code,
                 ![uid].statehistory = Append(@, state)]

\* cinfo['bulk'].execute(): the requests of the bulk, in order
RECURSIVE bulk_execute(_, _)
bulk_execute(coll, requests) ==
    IF requests = <<>> THEN coll
    ELSE bulk_execute(StoreWrite(coll, Head(requests).uid, Head(requests).state,
                                 Head(requests).push),
                      Tail(requests))

\* the ledger entry of a transition a component has just made for a CU
Transition(l, uid, state) == [l EXCEPT ![uid].transitions = Append(@, state)]

\* the pilot document after "$set state, $push statehistory" by a thread
pilot_update(p, state, writer) ==
    [state |-> state,
     statehistory |-> Append(p.statehistory, state),
     writers |-> Append(p.writers, writer)]

pilot_FAILED(p, writer) == pilot_update(p, FAILED, writer)

pilot_CANCELED(p, writer) == pilot_update(p, CANCELED, writer)

pilot_DONE(p, writer) == pilot_update(p, DONE, writer)

\* __main__: whatever status leaves the try block, and a plain return as
\* well, the finally clause ends the main thread with sys.exit(7)
main_exit_code(raised) == 7

\* the main thread after it left Agent.run for a cause, raising SystemExit
\* with a status (<<>> when run just returned)
main_exit(cause, raised) ==
    [phase |-> "exited", cause |-> cause, raised |-> raised,
     exit_code |-> <<main_exit_code(raised)>>]

(***************************************************************************)
(* Staging directives.  A directive is its action, whether the path it     *)
(* names inside the sandbox is absolute, and whether the file system lets  *)
(* the action succeed.                                                     *)
(***************************************************************************)

StagingActions == {LINK, COPY, MOVE, TRANSFER, "Unsupported"}

Directives == [action : StagingActions, absolute : BOOLEAN, fs_ok : BOOLEAN]

DirectiveLists == UNION {[1..n -> Directives] : n \in 1..MaxDirectives}

\* the directive lists the pipeline's CUs with input directives carry
StageinCases == {<<d>> : d \in [action : {LINK}, absolute : BOOLEAN, fs_ok : BOOLEAN]}

NoneDone(ds) == [i \in 1..Len(ds) |-> FALSE]

\* os.symlink / shutil.copyfile / shutil.move of a directive whose target
\* exists or not: os.symlink raises for a path that exists, copyfile and
\* move replace it
fs_performs(d, exists) == d.fs_ok /\ ~(d.action = LINK /\ exists)

\* StageinWorker.run, the loop over the directives from position i on.
\* sandbox is a 1-tuple, so os.path.join(sandbox, target) raises for a
\* relative target, before log_message is assigned.
RECURSIVE stagein_loop(_, _, _)
stagein_loop(ds, i, st) ==
    IF i > Len(ds) THEN st
    ELSE LET d == ds[i]
         IN  CASE ~d.absolute -> [st EXCEPT !.raised = i]
               [] d.absolute /\ d.action \in {LINK, COPY, MOVE}
                             /\ fs_performs(d, st.exists[i]) ->
                      stagein_loop(ds, i + 1,
                          [st EXCEPT !.bound = TRUE, !.performed[i] = TRUE])
               [] d.absolute /\ d.action = TRANSFER ->
                      stagein_loop(ds, i + 1, [st EXCEPT !.bound = TRUE])
               [] OTHER -> [st EXCEPT !.bound = TRUE, !.raised = i]

\* StageinWorker.run for the directives of one CU: what it performed, what
\* it asks the store to record for each directive and for the CU, and
\* whether the thread survives ("except:" needs log_message to be bound)
stagein_cu(ds, bound, exists) ==
    LET st == stagein_loop(ds, 1, [raised |-> 0, bound |-> bound, exists |-> exists,
                                   performed |-> NoneDone(ds)])
    IN  CASE st.raised = 0 ->
                 [alive |-> TRUE, bound |-> st.bound, failed |-> 0,
                  performed |-> st.performed,
                  reported |-> [i \in 1..Len(ds) |-> IF i = Len(ds) THEN DONE ELSE PENDING],
                  request |-> TRUE, state |-> ""]
          [] st.raised # 0 /\ st.bound ->
                 [alive |-> TRUE, bound |-> st.bound, failed |-> st.raised,
                  performed |-> st.performed,
                  reported |-> [i \in 1..Len(ds) |-> IF i = st.raised THEN FAILED ELSE PENDING],
                  request |-> TRUE, state |-> FAILED]
          [] OTHER ->
                 [alive |-> FALSE, bound |-> st.bound, failed |-> st.raised,
                  performed |-> st.performed,
                  reported |-> [i \in 1..Len(ds) |-> PENDING],
                  request |-> FALSE, state |-> ""]

\* StageoutWorker.run, the loop over the directives from position i on:
\* every directive it gets past is reported DONE; an exception is re-raised
RECURSIVE stageout_loop(_, _, _)
stageout_loop(ds, i, st) ==
    IF i > Len(ds) THEN st
    ELSE LET d == ds[i]
         IN  CASE ~d.absolute -> [st EXCEPT !.alive = FALSE, !.failed = i]
               [] d.absolute /\ d.action \in {LINK, COPY, MOVE}
                             /\ fs_performs(d, st.exists[i]) ->
                      stageout_loop(ds, i + 1,
                          [st EXCEPT !.bound = TRUE, !.performed[i] = TRUE,
                                     !.reported[i] = DONE])
               [] d.absolute /\ d.action \in {LINK, COPY, MOVE}
                             /\ ~fs_performs(d, st.exists[i]) ->
                      [st EXCEPT !.alive = FALSE, !.failed = i]
               [] d.absolute /\ d.action = TRANSFER ->
                      stageout_loop(ds, i + 1,
                          [st EXCEPT !.bound = TRUE, !.reported[i] = DONE])
               [] OTHER ->
                      IF st.bound
                      THEN stageout_loop(ds, i + 1, [st EXCEPT !.reported[i] = DONE])
                      ELSE [st EXCEPT !.alive = FALSE, !.failed = i]

\* StageoutWorker.run for the directives of one CU
stageout_cu(ds, bound, exists) ==
    stageout_loop(ds, 1, [alive |-> TRUE, bound |-> bound, failed |-> 0,
                          exists |-> exists,
                          performed |-> NoneDone(ds),
                          reported |-> [i \in 1..Len(ds) |-> PENDING]])

\* InputFileTransferWorker.run, the loop over input_staging: a failed copy
\* is logged, and the directive is set to 'Done' either way
ftw_input_cu(ds) ==
    [performed |-> [i \in 1..Len(ds) |-> ds[i].fs_ok],
     reported |-> [i \in 1..Len(ds) |-> DONE]]

\* the pipeline as Agent.__init__ leaves it, for CUs of those descriptions
PipelineStartWith(descriptions) ==
    /\ cu_desc \in descriptions
    /\ cu = [u \in Units |->
                [state |-> STATE_NEW, statehistory |-> <<STATE_NEW>>, started |-> FALSE,
                 exit_code |-> NoExit]]
    /\ update_queue = <<>>
    /\ bulk = <<>>
    /\ executed = 0
    /\ execution_queue = <<>>
    /\ put_pending = 0
    /\ stagein_queue = <<>>
    /\ command_queue = <<>>
    /\ cuids_to_cancel = {}
    /\ running_tasks = <<>>
    /\ proc = [u \in Units |-> "none"]
    /\ pilot_slots = ContConfigure(<<NodeName(1)>>, CoresPerNode)
    /\ exec_alive = TRUE
    /\ ledger = [u \in Units |-> [acquired |-> 0, released |-> 0, spawned |-> 0,
                                  transitions |-> <<>>]]
    /\ pilot = [state |-> LAUNCHING, statehistory |-> <<LAUNCHING>>,
                writers |-> <<"launcher">>]
    /\ main_thread = [phase |-> "init", cause |-> "", raised |-> NoExit,
                      exit_code |-> NoExit]
    /\ commands = <<>>

PipelineStart == PipelineStartWith([Units -> UnitDescriptions])

\* the staging workers as their constructors leave them
StageStart ==
    /\ stagein_alive = TRUE
    /\ log_message = FALSE
    /\ stageout_alive = TRUE
    /\ logmessage = FALSE
    /\ staging = NoStaging
    /\ stageout_queue = <<>>
    /\ output_staging_queue = <<>>

\* the agent started, with CUs that have no output directives
InitAgent ==
    /\ SchedIdle
    /\ DetIdle
    /\ PipelineStart
    /\ StageStart
    /\ SubIdle
    /\ \A u \in Units : cu_desc[u].Agent_Output_Directives = <<>>

\* the unit manager hands a CU to the pilot
Submit(u) ==
    /\ cu[u].state = STATE_NEW
    /\ cu' = StoreWrite(cu, u, PENDING_EXECUTION, TRUE)
    /\ ledger' = Transition(ledger, u, PENDING_EXECUTION)
    /\ UNCHANGED <<schedVars, detVars, subVars, put_pending, cu_desc, update_queue,
                   bulk, executed, execution_queue,
                   stagein_queue, command_queue, cuids_to_cancel, running_tasks,
                   proc, pilot_slots, exec_alive, pilotVars, stageVars>>

\* Agent.run up to its loop: the pilot becomes ACTIVE
AgentRunStart ==
    /\ main_thread.phase = "init"
    /\ pilot' = pilot_update(pilot, ACTIVE, "Agent")
    /\ main_thread' = [main_thread EXCEPT !.phase = "loop"]
    /\ UNCHANGED <<schedVars, detVars, subVars, put_pending, cu_desc, cu, update_queue,
                   bulk, executed, execution_queue,
                   stagein_queue, command_queue, cuids_to_cancel, running_tasks,
                   proc, pilot_slots, exec_alive, ledger, stageVars,
                   commands>>

\* Agent._check_worker_state finding a dead worker thread, or else the
\* walltime used up: the pilot's final state, then sys.exit(1)
AgentCheckWorkerState(finding) ==
    /\ main_thread.phase = "loop"
    /\ \/ /\ finding = "worker_died"
          /\ ~exec_alive \/ ~stagein_alive \/ ~stageout_alive
          /\ pilot' = pilot_FAILED(pilot, "Agent")
       \/ /\ finding = "walltime"
          /\ exec_alive /\ stagein_alive /\ stageout_alive
          /\ pilot' = pilot_DONE(pilot, "Agent")
    /\ main_thread' = main_exit(finding, <<1>>)
    /\ UNCHANGED <<schedVars, detVars, subVars, put_pending, cu_desc, cu, update_queue,
                   bulk, executed, execution_queue,
                   stagein_queue, command_queue, cuids_to_cancel, running_tasks,
                   proc, pilot_slots, exec_alive, ledger, stageVars,
                   commands>>

\* Agent._check_commands finding a command for the pilot: Cancel_Pilot ends
\* it with sys.exit(1); an unknown command raises, Agent.run fails the
\* pilot and returns
AgentCheckPilotCommand(command) ==
    /\ main_thread.phase = "loop"
    /\ IF command = COMMAND_CANCEL_PILOT
       THEN /\ pilot' = pilot_CANCELED(pilot, "Agent")
            /\ main_thread' = main_exit(command, <<1>>)
       ELSE /\ pilot' = pilot_FAILED(pilot, "Agent")
            /\ main_thread' = main_exit(command, <<>>)
    /\ UNCHANGED <<schedVars, detVars, subVars, put_pending, cu_desc, cu, update_queue,
                   bulk, executed, execution_queue,
                   stagein_queue, command_queue, cuids_to_cancel, running_tasks,
                   proc, pilot_slots, exec_alive, ledger, stageVars,
                   commands>>

\* sigint_handler (sys.exit(2)) and sigalarm_handler (sys.exit(3)), run by
\* the main thread inside the try block of __main__
SignalHandler(signal) ==
    /\ main_thread.phase \in {"init", "loop"}
    /\ pilot' = pilot_FAILED(pilot, "__main__")
    /\ main_thread' = main_exit(signal, IF signal = "SIGINT" THEN <<2>> ELSE <<3>>)
    /\ UNCHANGED <<schedVars, detVars, subVars, put_pending, cu_desc, cu, update_queue,
                   bulk, executed, execution_queue,
                   stagein_queue, command_queue, cuids_to_cancel, running_tasks,
                   proc, pilot_slots, exec_alive, ledger, stageVars,
                   commands>>

\* a sorting that sends every CU to the execution queue
route_execution(description) == "execution"

\* _check_units, "send to staging / execution, respectively"
route(description) ==
    IF description.Agent_Input_Directives THEN "stagein" ELSE "execution"

\* every sandbox can be made
AllSandboxes == [u \in Units |-> TRUE]

\* the CUs of cu_list from position i on, sorted into the queues; a CU whose
\* sandbox cannot be made ("could not sort unit") gets a FAILED update
\* request and is put on no queue
RECURSIVE sort_units(_, _, _, _)
sort_units(cu_list, i, q, sandbox_ok) ==
    IF i > Len(cu_list) THEN q
    ELSE LET u == cu_list[i]
         IN  CASE ~sandbox_ok[u] ->
                    sort_units(cu_list, i + 1,
                        [q EXCEPT !.update = Append(@, UpdateRequest(u, FAILED, TRUE)),
                                  !.ledger = Transition(@, u, FAILED)],
                        sandbox_ok)
               [] sandbox_ok[u] /\ route(cu_desc[u]) = "stagein" ->
                    sort_units(cu_list, i + 1,
                        [q EXCEPT !.update = Append(@, UpdateRequest(u, ALLOCATING, TRUE)),
                                  !.stagein = Append(@, u),
                                  !.ledger = Transition(@, u, ALLOCATING)],
                        sandbox_ok)
               [] OTHER ->
                    sort_units(cu_list, i + 1,
                        [q EXCEPT !.update = Append(@, UpdateRequest(u, STAGING_INPUT, TRUE)),
                                  !.execution = Append(@, u),
                                  !.ledger = Transition(@, u, STAGING_INPUT)],
                        sandbox_ok)

\* the find() of _check_units: the matching CUs in cursor order
find_units(state) ==
    SelectSeq(UnitIds, LAMBDA u : cu[u].state = state)

\* an update that leaves the found CUs as they are
mark_allocating_none(coll, cu_uids) == coll

\* the multi-update of _check_units: state ALLOCATING for every found CU
RECURSIVE mark_allocating(_, _)
mark_allocating(coll, cu_uids) ==
    IF cu_uids = <<>> THEN coll
    ELSE mark_allocating(StoreWrite(coll, Head(cu_uids), ALLOCATING, TRUE), Tail(cu_uids))

\* the ledger entries of that multi-update
RECURSIVE marked_allocating(_, _)
marked_allocating(l, cu_uids) ==
    IF cu_uids = <<>> THEN l
    ELSE marked_allocating(Transition(l, Head(cu_uids), ALLOCATING), Tail(cu_uids))

\* Agent._check_units; sandbox_ok tells for which CUs os.makedirs works
check_units(sandbox_ok) ==
    LET cu_list == find_units(PENDING_EXECUTION)
        q == sort_units(cu_list, 1,
                        [update |-> update_queue, stagein |-> stagein_queue,
                         execution |-> execution_queue,
                         ledger |-> marked_allocating(ledger, cu_list)],
                        sandbox_ok)
    IN  /\ main_thread.phase = "loop"
        /\ cu_list # <<>>
        /\ cu' = mark_allocating(cu, cu_list)
        /\ update_queue' = q.update
        /\ stagein_queue' = q.stagein
        /\ execution_queue' = q.execution
        /\ put_pending' = put_pending + Len(q.execution) - Len(execution_queue)
        /\ ledger' = q.ledger
        /\ UNCHANGED <<schedVars, detVars, subVars, cu_desc, bulk, executed,
                       command_queue, cuids_to_cancel,
                       running_tasks, proc, pilot_slots, exec_alive, pilotVars,
                       stageVars>>

\* Agent._check_units on a file system that lets it make every sandbox
AgentCheckUnits == check_units(AllSandboxes)

\* Agent._check_commands finding a cancel_unit(u) command in the pilot document
AgentCheckCommands(u) ==
    /\ main_thread.phase = "loop"
    /\ cu[u].state # STATE_NEW
    /\ u \notin cuids_to_cancel
    /\ u \notin Range(command_queue)
    /\ command_queue' = Append(command_queue, u)
    /\ UNCHANGED <<schedVars, detVars, subVars, put_pending, cu_desc, cu, update_queue,
                   bulk, executed, execution_queue,
                   stagein_queue, cuids_to_cancel, running_tasks, proc, pilot_slots,
                   exec_alive, ledger, pilotVars, stageVars>>

\* timed_bulk_execute when the bulk is old enough: execute() raises
\* InvalidOperation for a bulk object that was executed before, raises when
\* the store cannot be reached, and otherwise writes the requests in order;
\* only then is cinfo['bulk'] reset.  What is raised is logged by run().
timed_bulk_execute(coll, requests, raised, store_ok) ==
    IF raised = 0 /\ store_ok
    THEN [coll |-> bulk_execute(coll, requests), bulk |-> <<>>, executed |-> 0]
    ELSE [coll |-> coll, bulk |-> requests,
          executed |-> IF raised < MaxAttempts THEN raised + 1 ELSE raised]

\* UpdateWorker.run, a request was queued: it joins the bulk, and the bulk is
\* executed when it is older than BULK_COLLECTION_TIME
UpdateWorkerGet(time_is_up, store_ok) ==
    /\ update_queue # <<>>
    /\ update_queue' = Tail(update_queue)
    /\ LET requests == Append(bulk, Head(update_queue))
           r == timed_bulk_execute(cu, requests, executed, store_ok)
       IN  IF time_is_up
           THEN /\ cu' = r.coll
                /\ bulk' = r.bulk
                /\ executed' = r.executed
           ELSE /\ bulk' = requests
                /\ UNCHANGED <<cu, executed>>
    /\ UNCHANGED <<schedVars, detVars, subVars, put_pending, cu_desc, execution_queue,
                   stagein_queue,
                   command_queue, cuids_to_cancel, running_tasks, proc, pilot_slots,
                   exec_alive, ledger, pilotVars, stageVars>>

\* UpdateWorker.run, the queue was empty: a pending bulk that is old enough
\* is executed
UpdateWorkerIdle(store_ok) ==
    /\ update_queue = <<>>
    /\ bulk # <<>>
    /\ LET r == timed_bulk_execute(cu, bulk, executed, store_ok)
       IN  /\ cu' = r.coll
           /\ bulk' = r.bulk
           /\ executed' = r.executed
    /\ UNCHANGED <<schedVars, detVars, subVars, put_pending, cu_desc, update_queue, execution_queue,
                   stagein_queue, command_queue, cuids_to_cancel, running_tasks, proc,
                   pilot_slots, exec_alive, ledger, pilotVars, stageVars>>

\* StageinWorker.run with a CU from its queue: the directives succeed (the
\* last one is reported DONE, the CU's state is left alone), or one fails
\* (state FAILED, no statehistory entry), or the handler of the failure
\* raises and ends the thread; the CU is put on no further queue
StageinWorkerRun(directives) ==
    /\ stagein_alive
    /\ stagein_queue # <<>>
    /\ LET u == Head(stagein_queue)
           r == stagein_cu(directives, log_message, NoneDone(directives))
       IN  /\ stagein_queue' = Tail(stagein_queue)
           /\ update_queue' = IF r.request
                              THEN Append(update_queue, UpdateRequest(u, r.state, FALSE))
                              ELSE update_queue
           /\ ledger' = IF r.state = "" THEN ledger ELSE Transition(ledger, u, r.state)
           /\ stagein_alive' = r.alive
           /\ log_message' = r.bound
           /\ staging' = [worker |-> "StageinWorker", uid |-> u,
                          directives |-> directives, failed |-> r.failed,
                          performed |-> r.performed, reported |-> r.reported,
                          first |-> <<>>]
    /\ UNCHANGED <<schedVars, detVars, subVars, put_pending, cu_desc, cu, bulk,
                   executed, execution_queue, command_queue,
                   cuids_to_cancel, running_tasks, proc, pilot_slots, exec_alive,
                   pilotVars, stageout_alive, logmessage, outVars>>

\* what execution_queue.get_nowait() can see: a multiprocessing.Queue hands
\* an item that was put to its feeder thread, and get_nowait raises
\* Queue.Empty for it until the feeder has written it to the pipe.  (The
\* other queues behave alike; there an early Queue.Empty only delays.)
VisibleQueue == SubSeq(execution_queue, 1, Len(execution_queue) - put_pending)

\* the feeder thread of the execution queue writes its oldest item
QueueFeeder ==
    /\ put_pending > 0
    /\ put_pending' = put_pending - 1
    /\ UNCHANGED <<schedVars, detVars, subVars, cu_desc, cu, update_queue, bulk,
                   executed, execution_queue,
                   stagein_queue, command_queue, cuids_to_cancel, running_tasks, proc,
                   pilot_slots, exec_alive, ledger, pilotVars, stageVars>>

\* ExecWorker.run, "See if there are commands for the worker"
ReadCommand ==
    IF command_queue = <<>>
    THEN UNCHANGED <<command_queue, cuids_to_cancel>>
    ELSE /\ command_queue' = Tail(command_queue)
         /\ cuids_to_cancel' = cuids_to_cancel \cup {Head(command_queue)}

LaunchOutcomes == {"launched", "spawn_error", "update_error", "store_down"}

\* ExecWorker.run with a CU from the queue and a slot for it: _launch_task,
\* and the handler of whatever it raises; what the handler raises itself
\* ends the thread in "Error in ExecWorker loop"
ExecWorkerLaunch(outcome) ==
    /\ exec_alive
    /\ VisibleQueue # <<>>
    /\ LET u == Head(execution_queue)
           r == cont_allocate_slot(pilot_slots, cu_desc[u].cores, CoresPerNode)
           spawned == outcome # "spawn_error"
           released == cont_release_slot(r.slots, r.ret.task_slots)
       IN  /\ ~r.ret.none
           /\ ReadCommand
           /\ execution_queue' = Tail(execution_queue)
           /\ proc' = IF spawned THEN [proc EXCEPT ![u] = "running"] ELSE proc
           /\ running_tasks' =
                  IF spawned
                  THEN Append(running_tasks, [uid |-> u, opaque_slot |-> r.ret.task_slots])
                  ELSE running_tasks
           /\ pilot_slots' = IF outcome = "launched" THEN r.slots ELSE released
           /\ ledger' = [ledger EXCEPT
                  ![u].acquired = @ + 1,
                  ![u].spawned = IF spawned THEN @ + 1 ELSE @,
                  ![u].released = IF outcome = "launched" THEN @ ELSE @ + 1,
                  ![u].transitions =
                      CASE outcome = "launched" -> Append(@, EXECUTING)
                        [] outcome = "store_down" -> @
                        [] OTHER -> Append(@, FAILED)]
           /\ cu' = CASE outcome = "launched" -> update_tasks(cu, u, EXECUTING, TRUE, NoExit)
                      [] outcome = "spawn_error" -> update_tasks(cu, u, FAILED, FALSE, NoExit)
                      [] outcome = "update_error" -> update_tasks(cu, u, FAILED, TRUE, NoExit)
                      [] OTHER -> cu
           /\ exec_alive' = (outcome # "store_down")
           /\ pilot' = IF outcome = "store_down" THEN pilot_FAILED(pilot, "ExecWorker")
                       ELSE pilot
    /\ UNCHANGED <<schedVars, detVars, subVars, put_pending, cu_desc, update_queue,
                   bulk, executed, stagein_queue,
                   main_thread, commands, stageVars>>

\* a put that loses the item
queue_put_lost(queue, item) == queue

\* Queue.put: the item goes to the tail
queue_put(queue, item) == Append(queue, item)

\* ExecWorker.run with a CU from the queue and no slot for it: back in the
\* queue; the scheduler is left as the failed allocate_slot leaves it
ExecWorkerRequeue ==
    /\ exec_alive
    /\ VisibleQueue # <<>>
    /\ LET u == Head(execution_queue)
           r == cont_allocate_slot(pilot_slots, cu_desc[u].cores, CoresPerNode)
       IN  /\ r.ret.none
           /\ ReadCommand
           /\ execution_queue' = queue_put(Tail(execution_queue), u)
           /\ put_pending' = put_pending + 1
           /\ pilot_slots' = r.slots
    /\ UNCHANGED <<schedVars, detVars, subVars, cu_desc, cu, update_queue, bulk,
                   executed, stagein_queue,
                   running_tasks, proc, exec_alive, ledger, pilotVars,
                   stageVars>>

\* proc.poll(): the return code of the child, none while it runs
poll(p) ==
    CASE p = "exit0" -> <<0>>
      [] p = "exit1" -> <<1>>
      [] OTHER -> NoExit

\* _check_running, one task that is DONE whenever its child has exited
final_state_done(task, cancel) ==
    IF poll(proc[task.uid]) = NoExit
    THEN IF task.uid \in cancel THEN CANCELED ELSE ""
    ELSE DONE

\* _check_running, one task whose cancel request is not looked at
final_state_uncancelled(task, cancel) ==
    LET ret_code == poll(proc[task.uid])
    IN  CASE ret_code = NoExit -> ""
          [] ret_code # <<0>> -> FAILED
          [] cu_desc[task.uid].Agent_Output_Directives # <<>> -> STAGING_OUTPUT
          [] OTHER -> DONE

\* _check_running, one task: the state it ends in, "" while it keeps running
\* (FTW output directives are not modelled)
final_state(task, cancel) ==
    LET ret_code == poll(proc[task.uid])
    IN  CASE ret_code = NoExit -> IF task.uid \in cancel THEN CANCELED ELSE ""
          [] ret_code # <<0>> -> FAILED
          [] cu_desc[task.uid].Agent_Output_Directives # <<>> -> STAGING_OUTPUT
          [] OTHER -> DONE

\* _check_running, what it puts on _output_staging_queue for a task that
\* ends in STAGING_OUTPUT: one item per output directive
output_staging(uid, state) ==
    IF state = STAGING_OUTPUT
    THEN [i \in 1..Len(cu_desc[uid].Agent_Output_Directives) |->
             [directive |-> cu_desc[uid].Agent_Output_Directives[i], cu_id |-> uid]]
    ELSE <<>>

\* _check_running, the loop over the running tasks from position i on
RECURSIVE check_running(_, _, _)
check_running(i, cancel, st) ==
    IF i > Len(running_tasks) THEN st
    ELSE LET task == running_tasks[i]
             state == final_state(task, cancel)
         IN  IF state = "" THEN check_running(i + 1, cancel, [st EXCEPT !.keep = Append(@, task)])
             ELSE check_running(i + 1, cancel,
                      [st EXCEPT
                          !.slots = cont_release_slot(@, task.opaque_slot),
                          !.killed = IF state = CANCELED THEN @ \cup {task.uid} ELSE @,
                          !.outq = @ \o output_staging(task.uid, state),
                          !.coll = update_tasks(@, task.uid, state, TRUE,
                                                poll(proc[task.uid])),
                          !.ledger = [@ EXCEPT ![task.uid].released = @ + 1,
                                               ![task.uid].transitions = Append(@, state)]])

\* ExecWorker.run with an empty execution queue: _check_running
ExecWorkerCheckRunning ==
    /\ exec_alive
    /\ VisibleQueue = <<>>
    /\ ReadCommand
    /\ LET st == check_running(1, cuids_to_cancel',
                     [keep |-> <<>>, slots |-> pilot_slots, killed |-> {},
                      outq |-> output_staging_queue, coll |-> cu, ledger |-> ledger])
       IN  /\ running_tasks' = st.keep
           /\ pilot_slots' = st.slots
           /\ output_staging_queue' = st.outq
           /\ cu' = st.coll
           /\ ledger' = st.ledger
           /\ proc' = [u \in Units |-> IF u \in st.killed THEN "killed" ELSE proc[u]]
    /\ UNCHANGED <<schedVars, detVars, subVars, put_pending, cu_desc, update_queue,
                   bulk, executed, execution_queue,
                   stagein_queue, exec_alive, pilotVars, stagein_alive, log_message,
                   stageout_alive, logmessage, staging, stageout_queue>>

\* the child of a CU exits with code 0 or with another code
ChildExit(u, status) ==
    /\ proc[u] = "running"
    /\ proc' = [proc EXCEPT ![u] = status]
    /\ UNCHANGED <<schedVars, detVars, subVars, put_pending, cu_desc, cu, update_queue,
                   bulk, executed, execution_queue,
                   stagein_queue, command_queue, cuids_to_cancel, running_tasks,
                   pilot_slots, exec_alive, ledger, pilotVars, stageVars>>

\* the pipeline while nothing ends the pilot from outside
NextAgent ==
    \/ \E u \in Units : Submit(u)
    \/ AgentRunStart
    \/ AgentCheckWorkerState("worker_died")
    \/ AgentCheckUnits
    \/ \E u \in Units : AgentCheckCommands(u)
    \/ \E time_is_up \in BOOLEAN : UpdateWorkerGet(time_is_up, TRUE)
    \/ UpdateWorkerIdle(TRUE)
    \/ \E directives \in StageinCases : StageinWorkerRun(directives)
    \/ \E outcome \in LaunchOutcomes : ExecWorkerLaunch(outcome)
    \/ QueueFeeder
    \/ ExecWorkerRequeue
    \/ ExecWorkerCheckRunning
    \/ \E u \in Units, status \in {"exit0", "exit1"} : ChildExit(u, status)

SpecAgent == InitAgent /\ [][NextAgent]_vars

(***************************************************************************)
(* Part III.b  The pilot's end: walltime, commands for the pilot, signals  *)
(***************************************************************************)

\* two workloads: two CUs that each need the whole pilot, and a CU with
\* input directives next to one without
PilotWorkloads ==
    {[u \in Units |-> [cores |-> CoresPerNode, Agent_Input_Directives |-> FALSE,
                       Agent_Output_Directives |-> <<>>]],
     [u \in Units |-> [cores |-> 1, Agent_Input_Directives |-> (u = UnitIds[1]),
                       Agent_Output_Directives |-> <<>>]]}

InitPilot ==
    /\ InitAgent
    /\ cu_desc \in PilotWorkloads

NextPilot ==
    \/ NextAgent
    \/ AgentCheckWorkerState("walltime")
    \/ \E command \in {COMMAND_CANCEL_PILOT, "Unknown"} : AgentCheckPilotCommand(command)
    \/ \E signal \in {"SIGINT", "SIGALRM"} : SignalHandler(signal)

SpecPilot == InitPilot /\ [][NextPilot]_vars

(***************************************************************************)
(* Part III.c  The pipeline under fair scheduling of its threads           *)
(***************************************************************************)

\* CUs without input directives that each ask for all the cores of the pilot
InitFair ==
    /\ InitAgent
    /\ \A u \in Units : /\ ~cu_desc[u].Agent_Input_Directives
                         /\ cu_desc[u].cores = CoresPerNode

\* every launch succeeds and every store write goes through
NextFair ==
    \/ \E u \in Units : Submit(u)
    \/ AgentRunStart
    \/ AgentCheckUnits
    \/ \E u \in Units : AgentCheckCommands(u)
    \/ \E time_is_up \in BOOLEAN : UpdateWorkerGet(time_is_up, TRUE)
    \/ UpdateWorkerIdle(TRUE)
    \/ ExecWorkerLaunch("launched")
    \/ QueueFeeder
    \/ ExecWorkerRequeue
    \/ ExecWorkerCheckRunning
    \/ \E u \in Units, status \in {"exit0", "exit1"} : ChildExit(u, status)

\* an iteration of ExecWorker.run: which branch it takes is the state's choice
ExecWorkerStep ==
    \/ ExecWorkerLaunch("launched")
    \/ ExecWorkerRequeue
    \/ ExecWorkerCheckRunning

\* a step of the unit manager, the supervisor, the update worker or a child:
\* one that can be taken only finitely often, since the CUs are finitely
\* many and each is queued, updated and exited a bounded number of times
BoundedStep ==
    \/ \E u \in Units : Submit(u)
    \/ AgentRunStart
    \/ AgentCheckUnits
    \/ \E time_is_up \in BOOLEAN : UpdateWorkerGet(time_is_up, TRUE)
    \/ UpdateWorkerIdle(TRUE)
    \/ \E u \in Units, status \in {"exit0", "exit1"} : ChildExit(u, status)

\* ENABLED <<ExecWorkerStep>>_vars as a state predicate: with a CU it can
\* see in the queue the iteration launches or re-queues it, and either
\* changes the queue; with none it changes something if _check_running does
ExecWorkerCanStep ==
    /\ exec_alive
    /\ \/ VisibleQueue # <<>>
       \/ ENABLED <<ExecWorkerCheckRunning>>_vars

\* WF_vars(ExecWorkerStep), with ExecWorkerCanStep for its ENABLED
ExecWorkerFair ==
    \/ []<>(~ExecWorkerCanStep)
    \/ []<><<ExecWorkerStep>>_vars

\* every thread that can take a step of its loop takes one in the end, and
\* a child that runs exits; cancel commands may or may not arrive.  Weak
\* fairness of BoundedStep is weak fairness of each of its disjuncts, since
\* none of them can be taken forever.
Fairness ==
    /\ WF_vars(BoundedStep)
    /\ WF_vars(QueueFeeder)
    /\ ExecWorkerFair

SpecFair == InitFair /\ [][NextFair]_vars /\ Fairness

(***************************************************************************)
(* Part III.d  The staging workers applied to the directives of one CU     *)
(***************************************************************************)

\* a CU with some list of directives is handed to a staging worker, whose
\* message local is bound or not, depending on the CUs it saw before
InitStaging ==
    /\ SchedIdle
    /\ DetIdle
    /\ PipelineIdle
    /\ SubIdle
    /\ stagein_alive = TRUE
    /\ stageout_alive = TRUE
    /\ log_message \in BOOLEAN
    /\ logmessage \in BOOLEAN
    /\ staging \in {[NoStaging EXCEPT !.directives = ds] : ds \in DirectiveLists}
    /\ stageout_queue = <<>>
    /\ output_staging_queue = <<>>

\* StageinWorker.run on that CU
StageinWorkerDirectives ==
    /\ staging.worker = "none"
    /\ LET r == stagein_cu(staging.directives, log_message, NoneDone(staging.directives))
       IN  /\ stagein_alive' = r.alive
           /\ log_message' = r.bound
           /\ staging' = [staging EXCEPT !.worker = "StageinWorker",
                                         !.failed = r.failed,
                                         !.performed = r.performed,
                                         !.reported = r.reported]
    /\ UNCHANGED <<schedVars, detVars, subVars, put_pending, cu_desc, cu, update_queue,
                   bulk, executed, execution_queue,
                   stagein_queue, command_queue, cuids_to_cancel, running_tasks, proc,
                   pilot_slots, exec_alive, ledger, pilotVars, stageout_alive,
                   logmessage, outVars>>

\* StageoutWorker.run on that CU, taken from _stageout_queue
StageoutWorkerRun ==
    /\ staging.worker = "none"
    /\ LET r == stageout_cu(staging.directives, logmessage, NoneDone(staging.directives))
       IN  /\ stageout_alive' = r.alive
           /\ logmessage' = r.bound
           /\ staging' = [staging EXCEPT !.worker = "StageoutWorker",
                                         !.failed = r.failed,
                                         !.performed = r.performed,
                                         !.reported = r.reported]
    /\ UNCHANGED <<schedVars, detVars, subVars, put_pending, cu_desc, cu, update_queue,
                   bulk, executed, execution_queue,
                   stagein_queue, command_queue, cuids_to_cancel, running_tasks, proc,
                   pilot_slots, exec_alive, ledger, pilotVars, stagein_alive,
                   log_message, outVars>>

\* StageinWorker.run on a CU it has completed before: the targets of the
\* directives it performed exist
StageinWorkerRerun ==
    /\ staging.worker = "StageinWorker"
    /\ staging.first = <<>>
    /\ stagein_alive /\ staging.failed = 0
    /\ LET r == stagein_cu(staging.directives, log_message, staging.performed)
       IN  /\ stagein_alive' = r.alive
           /\ log_message' = r.bound
           /\ staging' = [staging EXCEPT !.first = <<staging.reported>>,
                                         !.failed = r.failed,
                                         !.performed = r.performed,
                                         !.reported = r.reported]
    /\ UNCHANGED <<schedVars, detVars, subVars, put_pending, cu_desc, cu, update_queue, bulk,
                   executed, execution_queue, stagein_queue, command_queue,
                   cuids_to_cancel, running_tasks, proc, pilot_slots, exec_alive,
                   ledger, pilotVars, stageout_alive, logmessage, outVars>>

\* StageoutWorker.run on a CU it has completed before
StageoutWorkerRerun ==
    /\ staging.worker = "StageoutWorker"
    /\ staging.first = <<>>
    /\ stageout_alive /\ staging.failed = 0
    /\ LET r == stageout_cu(staging.directives, logmessage, staging.performed)
       IN  /\ stageout_alive' = r.alive
           /\ logmessage' = r.bound
           /\ staging' = [staging EXCEPT !.first = <<staging.reported>>,
                                         !.failed = r.failed,
                                         !.performed = r.performed,
                                         !.reported = r.reported]
    /\ UNCHANGED <<schedVars, detVars, subVars, put_pending, cu_desc, cu, update_queue, bulk,
                   executed, execution_queue, stagein_queue, command_queue,
                   cuids_to_cancel, running_tasks, proc, pilot_slots, exec_alive,
                   ledger, pilotVars, stagein_alive, log_message, outVars>>

\* InputFileTransferWorker.run on that CU
InputFileTransferWorkerRun ==
    /\ staging.worker = "none"
    /\ LET r == ftw_input_cu(staging.directives)
       IN  staging' = [staging EXCEPT !.worker = "InputFileTransferWorker",
                                     !.performed = r.performed,
                                     !.reported = r.reported]
    /\ UNCHANGED <<schedVars, detVars, subVars, put_pending, cu_desc, cu, update_queue,
                   bulk, executed, execution_queue,
                   stagein_queue, command_queue, cuids_to_cancel, running_tasks, proc,
                   pilot_slots, exec_alive, ledger, pilotVars, stagein_alive,
                   log_message, stageout_alive, logmessage, outVars>>

NextStaging ==
    \/ StageinWorkerDirectives
    \/ StageoutWorkerRun
    \/ StageinWorkerRerun
    \/ StageoutWorkerRerun
    \/ InputFileTransferWorkerRun

SpecStaging == InitStaging /\ [][NextStaging]_vars

(***************************************************************************)
(* Part III.e  The pipeline with a store the update worker may not reach   *)
(***************************************************************************)

\* CUs of one core each, without input directives
InitUpdate ==
    /\ InitAgent
    /\ \A u \in Units : /\ ~cu_desc[u].Agent_Input_Directives
                         /\ cu_desc[u].cores = 1

\* every launch succeeds; a bulk of the update worker may fail
NextUpdate ==
    \/ \E u \in Units : Submit(u)
    \/ AgentRunStart
    \/ AgentCheckUnits
    \/ \E time_is_up, store_ok \in BOOLEAN : UpdateWorkerGet(time_is_up, store_ok)
    \/ \E store_ok \in BOOLEAN : UpdateWorkerIdle(store_ok)
    \/ ExecWorkerLaunch("launched")
    \/ QueueFeeder
    \/ ExecWorkerCheckRunning
    \/ \E u \in Units, status \in {"exit0", "exit1"} : ChildExit(u, status)

SpecUpdate == InitUpdate /\ [][NextUpdate]_vars

(***************************************************************************)
(* Part III.f  Output directives: the exec worker's _check_running and the *)
(* stage-out worker, on the queues Agent.__init__ hands them               *)
(***************************************************************************)

\* CUs of one core each, without input directives, with or without an
\* output directive
InitOutput ==
    /\ SchedIdle
    /\ DetIdle
    /\ PipelineStart
    /\ StageStart
    /\ SubIdle
    /\ \A u \in Units : /\ ~cu_desc[u].Agent_Input_Directives
                         /\ cu_desc[u].cores = 1

\* StageoutWorker.run, one iteration: Queue.Empty and a sleep, or the
\* directives of the CU it got from _stageout_queue, one update request for
\* each directive it gets past
StageoutWorkerGet ==
    /\ stageout_alive
    /\ IF stageout_queue = <<>>
       THEN UNCHANGED <<stageout_queue, update_queue, stageout_alive, logmessage, staging>>
       ELSE LET item == Head(stageout_queue)
                ds == item.Agent_Output_Directives
                r == stageout_cu(ds, logmessage, NoneDone(ds))
                done == Cardinality({i \in 1..Len(ds) : r.reported[i] = DONE})
            IN  /\ stageout_queue' = Tail(stageout_queue)
                /\ update_queue' =
                       update_queue \o [i \in 1..done |-> UpdateRequest(item.uid, "", FALSE)]
                /\ stageout_alive' = r.alive
                /\ logmessage' = r.bound
                /\ staging' = [worker |-> "StageoutWorker", uid |-> item.uid,
                               directives |-> ds, failed |-> r.failed,
                               performed |-> r.performed, reported |-> r.reported,
                               first |-> <<>>]
    /\ UNCHANGED <<schedVars, detVars, subVars, put_pending, cu_desc, cu, bulk,
                   executed, execution_queue, stagein_queue, command_queue,
                   cuids_to_cancel, running_tasks, proc, pilot_slots, exec_alive,
                   ledger, pilotVars, stagein_alive, log_message, output_staging_queue>>

\* every launch succeeds and every store write goes through
NextOutput ==
    \/ \E u \in Units : Submit(u)
    \/ AgentRunStart
    \/ AgentCheckUnits
    \/ \E u \in Units : AgentCheckCommands(u)
    \/ \E time_is_up \in BOOLEAN : UpdateWorkerGet(time_is_up, TRUE)
    \/ UpdateWorkerIdle(TRUE)
    \/ ExecWorkerLaunch("launched")
    \/ QueueFeeder
    \/ ExecWorkerCheckRunning
    \/ StageoutWorkerGet
    \/ \E u \in Units, status \in {"exit0", "exit1"} : ChildExit(u, status)

SpecOutput == InitOutput /\ [][NextOutput]_vars

\* the threads of the agent under fair scheduling, the stage-out worker's
\* loop included
OutputFairness ==
    /\ Fairness
    /\ WF_vars(StageoutWorkerGet)

SpecOutputFair == InitOutput /\ [][NextOutput]_vars /\ OutputFairness

(***************************************************************************)
(* Part III.g  The supervisor's _check_units with sandboxes that may fail  *)
(***************************************************************************)

\* CUs of one core each, with or without input directives
InitRouting ==
    /\ InitAgent
    /\ \A u \in Units : cu_desc[u].cores = 1

\* every launch and every store write succeeds; os.makedirs may raise
NextRouting ==
    \/ \E u \in Units : Submit(u)
    \/ AgentRunStart
    \/ \E sandbox_ok \in [Units -> BOOLEAN] : check_units(sandbox_ok)
    \/ \E time_is_up \in BOOLEAN : UpdateWorkerGet(time_is_up, TRUE)
    \/ UpdateWorkerIdle(TRUE)
    \/ \E directives \in StageinCases : StageinWorkerRun(directives)
    \/ ExecWorkerLaunch("launched")
    \/ QueueFeeder
    \/ ExecWorkerCheckRunning
    \/ \E u \in Units, status \in {"exit0", "exit1"} : ChildExit(u, status)

SpecRouting == InitRouting /\ [][NextRouting]_vars

(***************************************************************************)
(* Part III.h  Commands in the pilot document: Agent._check_commands on    *)
(* the list it reads and wipes, and the exec worker's command queue        *)
(***************************************************************************)

Command(type, arg) == [type |-> type, arg |-> arg]

\* the commands a client writes to the pilot document
ClientCommands ==
    {Command(COMMAND_CANCEL_PILOT, ""), Command(COMMAND_KEEP_ALIVE, "")}
        \cup {Command(COMMAND_CANCEL_COMPUTE_UNIT, u) : u \in Units}

\* CUs of one core each, without input directives
InitCommands ==
    /\ InitAgent
    /\ \A u \in Units : /\ ~cu_desc[u].Agent_Input_Directives
                         /\ cu_desc[u].cores = 1

\* a client pushes a command onto the command list of a pilot that has not
\* ended; it holds back a command that is still on its way
ClientCommand(c) ==
    /\ main_thread.phase \in {"init", "loop"}
    /\ Len(commands) < MaxCommands
    /\ c \notin Range(commands)
    /\ c.type = COMMAND_CANCEL_COMPUTE_UNIT =>
           /\ cu[c.arg].state # STATE_NEW
           /\ c.arg \notin cuids_to_cancel
           /\ c.arg \notin Range(command_queue)
    /\ commands' = Append(commands, c)
    /\ UNCHANGED <<schedVars, detVars, subVars, put_pending, cu_desc, cu, update_queue,
                   bulk, executed, execution_queue,
                   stagein_queue, command_queue, cuids_to_cancel, running_tasks, proc,
                   pilot_slots, exec_alive, ledger, pilot, main_thread, stageVars>>

\* a loop that handles none of the commands
dispatch_none(cmds, i, state, st) == st

\* _check_commands, the loop over the commands it has read, from position i
\* on: st.left is how the loop was left, "" while it runs
RECURSIVE dispatch(_, _, _, _)
dispatch(cmds, i, state, st) ==
    IF i > Len(cmds) THEN st
    ELSE LET command == cmds[i]
         IN  CASE command.type = COMMAND_CANCEL_PILOT ->
                      [st EXCEPT !.left = COMMAND_CANCEL_PILOT]
               [] command.type # COMMAND_CANCEL_PILOT /\ state = CANCELING ->
                      [st EXCEPT !.left = COMMAND_CANCEL_PILOT]
               [] command.type = COMMAND_CANCEL_COMPUTE_UNIT /\ state # CANCELING ->
                      dispatch(cmds, i + 1, state,
                               [st EXCEPT !.command_queue = Append(@, command.arg)])
               [] command.type = COMMAND_KEEP_ALIVE /\ state # CANCELING ->
                      dispatch(cmds, i + 1, state, st)
               [] OTHER -> [st EXCEPT !.left = "Unknown"]

\* Agent._check_commands: find_and_modify reads the list and wipes it, then
\* the commands are handled in order; Cancel_Pilot ends the supervisor with
\* sys.exit(1), an unknown command raises and Agent.run fails the pilot
check_commands ==
    /\ main_thread.phase = "loop"
    /\ commands # <<>>
    /\ commands' = <<>>
    /\ LET st == dispatch(commands, 1, pilot.state,
                          [command_queue |-> command_queue, left |-> ""])
       IN  /\ command_queue' = st.command_queue
           /\ CASE st.left = "" -> UNCHANGED <<pilot, main_thread>>
                [] st.left = COMMAND_CANCEL_PILOT ->
                       /\ pilot' = pilot_CANCELED(pilot, "Agent")
                       /\ main_thread' = main_exit(COMMAND_CANCEL_PILOT, <<1>>)
                [] OTHER ->
                       /\ pilot' = pilot_FAILED(pilot, "Agent")
                       /\ main_thread' = main_exit("Unknown", <<>>)
    /\ UNCHANGED <<schedVars, detVars, subVars, put_pending, cu_desc, cu, update_queue,
                   bulk, executed, execution_queue,
                   stagein_queue, cuids_to_cancel, running_tasks, proc, pilot_slots,
                   exec_alive, ledger, stageVars>>

\* every launch succeeds, every store write goes through, every child
\* exits with code 0
NextCommands ==
    \/ \E u \in Units : Submit(u)
    \/ AgentRunStart
    \/ AgentCheckUnits
    \/ \E c \in ClientCommands : ClientCommand(c)
    \/ check_commands
    \/ \E time_is_up \in BOOLEAN : UpdateWorkerGet(time_is_up, TRUE)
    \/ UpdateWorkerIdle(TRUE)
    \/ ExecWorkerLaunch("launched")
    \/ QueueFeeder
    \/ ExecWorkerCheckRunning
    \/ \E u \in Units : ChildExit(u, "exit0")

\* the threads under fair scheduling; the supervisor's loop calls
\* _check_commands in every iteration
CommandFairness ==
    /\ Fairness
    /\ WF_vars(check_commands)

SpecCommands == InitCommands /\ [][NextCommands]_vars /\ CommandFairness

(***************************************************************************)
(* Part IV  Agent_0 and its sub-agents                                     *)
(*                                                                         *)
(* Each sub-agent is a child process (_SA._proc) polled by its _SA         *)
(* watchable; Agent_0 watches the watchables it registered and polls its   *)
(* runtime in _agent_command_cb.                                           *)
(***************************************************************************)

SubAgentNames == {"agent_1", "agent_2", "agent_3"}

\* cfg['agents']: the configured sub-agents and the target of each
SubAgentConfigs ==
    UNION {[S -> {"local", "node"}] : S \in SUBSET SubAgentNames}

FinalCauses == {"None", "timeout", "cancel", "sys.exit"}

\* Agent_0.finalize with every cause but 'timeout'
finalize_no_timeout(cause) ==
    CASE cause = "cancel"   -> CANCELED
      [] cause = "sys.exit" -> CANCELED
      [] OTHER              -> FAILED

\* Agent_0.finalize: the final state for self._final_cause
finalize(cause) ==
    CASE cause = "timeout"  -> DONE
      [] cause = "cancel"   -> CANCELED
      [] cause = "sys.exit" -> CANCELED
      [] OTHER              -> FAILED

\* stop() of Agent_0 reaches every watchable: _SA.ru_finalize_child
\* terminates the child process that still runs
stop_sub_agents(agents) ==
    [sa \in DOMAIN agents |->
        [agents[sa] EXCEPT !.watcher = "ended",
                           !.proc = IF @ = "running" THEN "terminated" ELSE @]]

\* Agent_0 after __init__, with some cfg['agents']
InitSub ==
    /\ SchedIdle
    /\ DetIdle
    /\ PipelineIdle
    /\ StageIdle
    /\ ExtIdle
    /\ lm = [variant |-> "", env |-> <<>>, constructed |-> "no", raised |-> "",
             launch_command |-> <<>>]
    /\ \E cfg \in SubAgentConfigs :
           agent_0 = [agents |-> [sa \in DOMAIN cfg |->
                                    [target |-> cfg[sa], proc |-> "none",
                                     watcher |-> "none"]],
                      phase |-> "init", final_cause |-> "None", state |-> ""]

\* Agent_0.initialize: _start_sub_agents creates an _SA for every entry of
\* cfg['agents'] (a no-op without entries) and registers it as watchable
start_sub_agents ==
    /\ agent_0.phase = "init"
    /\ agent_0' = [agent_0 EXCEPT
           !.agents = [sa \in DOMAIN @ |->
                          [@[sa] EXCEPT !.proc = "running", !.watcher = "alive"]],
           !.phase = "running"]
    /\ UNCHANGED <<schedVars, detVars, agentVars, lm, extVars>>

\* the child process of a sub-agent exits
SubAgentExit(sa) ==
    /\ agent_0.phase = "running"
    /\ agent_0.agents[sa].proc = "running"
    /\ agent_0' = [agent_0 EXCEPT !.agents[sa].proc = "exited"]
    /\ UNCHANGED <<schedVars, detVars, agentVars, lm, extVars>>

\* _SA.work_cb finds self._proc.poll() is not None: it returns False and
\* the watchable ends
work_cb(sa) ==
    /\ agent_0.phase = "running"
    /\ agent_0.agents[sa].watcher = "alive"
    /\ agent_0.agents[sa].proc = "exited"
    /\ agent_0' = [agent_0 EXCEPT !.agents[sa].watcher = "ended"]
    /\ UNCHANGED <<schedVars, detVars, agentVars, lm, extVars>>

\* the watcher of Agent_0 finds a registered watchable that has ended:
\* Agent_0 stops and finalizes
WatcherReport ==
    /\ agent_0.phase = "running"
    /\ \E sa \in DOMAIN agent_0.agents : agent_0.agents[sa].watcher = "ended"
    /\ agent_0' = [agent_0 EXCEPT !.agents = stop_sub_agents(@),
                                  !.state = finalize(agent_0.final_cause),
                                  !.phase = "final"]
    /\ UNCHANGED <<schedVars, detVars, agentVars, lm, extVars>>

\* _agent_command_cb, _check_state with the runtime used up: the cause is
\* 'timeout', Agent_0 stops and finalizes
check_state_timeout ==
    /\ agent_0.phase = "running"
    /\ agent_0' = [agent_0 EXCEPT !.agents = stop_sub_agents(@),
                                  !.final_cause = "timeout",
                                  !.state = finalize("timeout"),
                                  !.phase = "final"]
    /\ UNCHANGED <<schedVars, detVars, agentVars, lm, extVars>>

NextSub ==
    \/ start_sub_agents
    \/ \E sa \in DOMAIN agent_0.agents : SubAgentExit(sa)
    \/ \E sa \in DOMAIN agent_0.agents : work_cb(sa)
    \/ WatcherReport
    \/ check_state_timeout

SpecSub == InitSub /\ [][NextSub]_vars

(***************************************************************************)
(* Part V  Construction of a launch method                                 *)
(*                                                                         *)
(* A class is constructed in an environment: whether its executable is on  *)
(* the path, whether mpirun is, and whether "ssh" is a link to "rsh".  A   *)
(* launch command is <<>> for None and <<command>> otherwise.              *)
(***************************************************************************)

LaunchMethodClasses ==
    {"LaunchMethod", "APRUN", "CCMRUN", "DPLACE", "FORK", "IBRUN", "MPIEXEC",
     "MPIRUN_CCMRUN", "MPIRUN_DPLACE", "MPIRUN", "MPIRUN_RSH", "POE", "RUNJOB", "SSH"}

LaunchEnvironments == [found : BOOLEAN, mpirun : BOOLEAN, rsh_link : BOOLEAN]

\* self._which(program): the path of the executable, or None
which(found) == IF found THEN <<"path">> ELSE <<>>

\* configure() of a base class that would do nothing
lm_configure_pass(variant, env) == [raised |-> "", launch_command |-> <<>>]

\* configure() of each class: what it raises and what it leaves in
\* self.launch_command (None before)
lm_configure(variant, env) ==
    CASE variant = "LaunchMethod" ->
             [raised |-> "NotImplementedError", launch_command |-> <<>>]
      [] variant = "FORK" -> [raised |-> "", launch_command |-> <<"">>]
      [] variant = "SSH" ->
             [raised |-> "",
              launch_command |-> IF env.found /\ ~env.rsh_link
                                 THEN <<"path -o StrictHostKeyChecking=no">>
                                 ELSE <<>>]
      [] variant = "MPIRUN_CCMRUN" ->
             [raised |-> IF env.mpirun THEN "" ELSE "Exception",
              launch_command |-> which(env.found)]
      [] OTHER -> [raised |-> "", launch_command |-> which(env.found)]

\* LaunchMethod.__init__: configure(), then "Launch command not found" for
\* a launch command that is still None
lm_init(variant, env) ==
    LET c == lm_configure(variant, env)
    IN  CASE c.raised # "" ->
                 [constructed |-> "raised", raised |-> c.raised, launch_command |-> <<>>]
          [] c.raised = "" /\ c.launch_command = <<>> ->
                 [constructed |-> "raised", raised |-> "Exception", launch_command |-> <<>>]
          [] OTHER ->
                 [constructed |-> "object", raised |-> "",
                  launch_command |-> c.launch_command]

InitLM ==
    /\ SchedIdle
    /\ DetIdle
    /\ PipelineIdle
    /\ StageIdle
    /\ ExtIdle
    /\ agent_0 = [agents |-> <<>>, phase |-> "none", final_cause |-> "None", state |-> ""]
    /\ \E variant \in LaunchMethodClasses, env \in LaunchEnvironments :
           lm = [variant |-> variant, env |-> env, constructed |-> "no", raised |-> "",
                 launch_command |-> <<>>]

\* cls(name, scheduler, logger)
LaunchMethodConstruct ==
    /\ lm.constructed = "no"
    /\ LET r == lm_init(lm.variant, lm.env)
       IN  lm' = [lm EXCEPT !.constructed = r.constructed, !.raised = r.raised,
                            !.launch_command = r.launch_command]
    /\ UNCHANGED <<schedVars, detVars, agentVars, agent_0, extVars>>

NextLM == LaunchMethodConstruct

SpecLM == InitLM /\ [][NextLM]_vars

(***************************************************************************)
(* Part I.c  The scheduler driven by arbitrary allocate / release calls    *)
(***************************************************************************)

\* Scheduler.create + configure: the node list is whatever order the LRMS
\* produced; the torus block is built from the block shape
InitSched ==
    /\ scheduler_name \in {SCHEDULER_NAME_CONTINUOUS, SCHEDULER_NAME_TORUS}
    /\ slots = ContConfigure(DeclaredNodes, CoresPerNode)
    /\ cont_live = {}
    /\ cont_call = NoContCall
    /\ torus_block = bgq_get_block(BlockShape)
    /\ torus_live = {}
    /\ torus_call = NoTorusCall
    /\ DetIdle
    /\ AgentIdle

\* scheduler.allocate_slot(cores_requested), continuous variant
ContAllocate(cores_requested) ==
    /\ scheduler_name = SCHEDULER_NAME_CONTINUOUS
    /\ LET r == cont_allocate_slot(slots, cores_requested, CoresPerNode)
       IN  /\ slots' = r.slots
           /\ cont_live' = IF r.ret.none THEN cont_live
                           ELSE cont_live \cup {r.ret.task_slots}
           /\ cont_call' = [op |-> "allocate", request |-> cores_requested,
                            none |-> r.ret.none, task_slots |-> r.ret.task_slots,
                            before |-> slots, inverse |-> FALSE, prior |-> <<>>]
    /\ UNCHANGED <<scheduler_name, torus_block, torus_live, torus_call, detVars,
                   agentVars, subVars>>

\* scheduler.release_slot(task_slots) of an outstanding slot
ContRelease(task_slots) ==
    /\ scheduler_name = SCHEDULER_NAME_CONTINUOUS
    /\ task_slots \in cont_live
    /\ slots' = cont_release_slot(slots, task_slots)
    /\ cont_live' = cont_live \ {task_slots}
    /\ cont_call' = [op |-> "release", request |-> 0, none |-> TRUE,
                     task_slots |-> task_slots, before |-> slots,
                     inverse |-> /\ cont_call.op = "allocate"
                                 /\ ~cont_call.none
                                 /\ cont_call.task_slots = task_slots,
                     prior |-> cont_call.before]
    /\ UNCHANGED <<scheduler_name, torus_block, torus_live, torus_call, detVars,
                   agentVars, subVars>>

\* scheduler.allocate_slot(cores_requested), torus variant; an exception
\* leaves the block as the call had changed it so far
TorusAllocate(cores_requested) ==
    /\ scheduler_name = SCHEDULER_NAME_TORUS
    /\ LET r == torus_allocate_slot(torus_block, shape_table, cores_requested,
                                    BGQ_CORES_PER_NODE)
       IN  /\ torus_block' = r.block
           /\ torus_live' = IF r.none THEN torus_live ELSE torus_live \cup {r.slot}
           /\ torus_call' = [op |-> "allocate", request |-> cores_requested,
                             exc |-> r.exc, none |-> r.none, slot |-> r.slot,
                             before |-> torus_block, inverse |-> FALSE,
                             prior |-> <<>>]
    /\ UNCHANGED <<scheduler_name, slots, cont_live, cont_call, detVars, agentVars, subVars>>

\* scheduler.release_slot((corner, shape)) of an outstanding slot
TorusRelease(slot) ==
    /\ scheduler_name = SCHEDULER_NAME_TORUS
    /\ slot \in torus_live
    /\ LET r == torus_release_slot(torus_block, slot)
       IN  /\ torus_block' = r.block
           /\ torus_call' = [op |-> "release", request |-> 0, exc |-> r.exc,
                             none |-> TRUE, slot |-> slot, before |-> torus_block,
                             inverse |-> /\ torus_call.op = "allocate"
                                         /\ ~torus_call.none
                                         /\ torus_call.slot = slot,
                             prior |-> torus_call.before]
    /\ torus_live' = torus_live \ {slot}
    /\ UNCHANGED <<scheduler_name, slots, cont_live, cont_call, detVars, agentVars, subVars>>

NextSched ==
    \/ \E k \in ContRequests : ContAllocate(k)
    \/ \E ts \in cont_live : ContRelease(ts)
    \/ \E k \in TorusRequests : TorusAllocate(k)
    \/ \E s \in torus_live : TorusRelease(s)

SpecSched == InitSched /\ [][NextSched]_vars

(***************************************************************************)
(* Claims about the schedulers                                             *)
(***************************************************************************)
BusyCores(sl) == {<<i, c>> \in (DOMAIN sl) \X (1..CoresPerNode) : sl[i].cores[c] = BUSY}

RECURSIVE SumEntries(_)
SumEntries(S) ==
    IF S = {} THEN 0
    ELSE LET s == CHOOSE x \in S : TRUE IN Len(s) + SumEntries(S \ {s})

\* C1: at every point the number of BUSY cores equals the sum, over the
\* outstanding slots, of the number of core entries the slot lists.
SlotConservation ==
    scheduler_name = SCHEDULER_NAME_CONTINUOUS
        => Cardinality(BusyCores(slots)) = SumEntries(cont_live)

\* outstanding continuous slots that list core c (0-based) of node i
ContHolders(i, c) == {s \in cont_live : <<slots[i].node, c>> \in Range(s)}

\* block positions (0-based) a torus slot stands for
TorusSlotNodes(s) ==
    LET off == corner2offset(torus_block, s.corner)
    IN  off..(off + shape2num_nodes(s.shape) - 1)

TorusHolders(idx) == {s \in torus_live : idx \in TorusSlotNodes(s)}

\* C2 (continuous part): a core is BUSY iff exactly one outstanding slot
\* lists it, and no core is listed by two outstanding slots.
ContNoDoubleAllocation ==
    \A i \in DOMAIN slots : \A c \in 1..CoresPerNode :
        /\ Cardinality(ContHolders(i, c - 1)) <= 1
        /\ slots[i].cores[c] = BUSY <=> Cardinality(ContHolders(i, c - 1)) = 1

\* C2 (torus part): no torus node belongs to two outstanding slots.
TorusNoSharedNode ==
    \A i \in DOMAIN torus_block : Cardinality(TorusHolders(i - 1)) <= 1

\* C2: no core and no torus node appears in two outstanding slots, and a
\* core (torus: a node's cores) is BUSY iff exactly one outstanding slot
\* contains it.
NoDoubleAllocation ==
    /\ ContNoDoubleAllocation
    /\ TorusNoSharedNode
    /\ \A i \in DOMAIN torus_block :
          torus_block[i].status = BUSY <=> Cardinality(TorusHolders(i - 1)) = 1

\* C3: allocate followed immediately by release of the returned slot
\* restores exactly the FREE/BUSY map that preceded the allocate.
ReleaseInvertsAllocate ==
    /\ cont_call.inverse => slots = cont_call.prior
    /\ torus_call.inverse => torus_block = torus_call.prior

\* C3 witness: a slot spanning nodes was released right after its allocate
ReleaseInvertsAllocateWitness ==
    /\ cont_call.inverse
    /\ Len(cont_call.task_slots) > CoresPerNode
    /\ BusyCores(slots) # {}

\* a run of k FREE cores starting at core off (0-based)
FreeRun(cores, k, off) == \A j \in 1..k : cores[off + j] = FREE

NodeFits(sl, i, k) == \E off \in 0..(Len(sl[i].cores) - k) : FreeRun(sl[i].cores, k, off)

\* C4: a request of k <= cores_per_node cores that yields a slot yields the
\* left-most run of k FREE cores of the first node (list order) having one.
ContinuousPacking ==
    (/\ cont_call.op = "allocate"
     /\ cont_call.request <= CoresPerNode
     /\ ~cont_call.none)
    => LET sl == cont_call.before
           k == cont_call.request
       IN  /\ \E i \in DOMAIN sl : NodeFits(sl, i, k)
           /\ LET i == SetMin({n \in DOMAIN sl : NodeFits(sl, n, k)})
                  off == SetMin({o \in 0..(Len(sl[i].cores) - k) :
                                    FreeRun(sl[i].cores, k, o)})
              IN  Range(cont_call.task_slots) =
                      {<<sl[i].node, c>> : c \in off..(off + k - 1)}

\* block positions (1-based) the last torus call turned from FREE to BUSY
NewlyBusy ==
    {i \in DOMAIN torus_block :
        /\ torus_call.before[i].status = FREE
        /\ torus_block[i].status = BUSY}

\* the sub-block node count a request of that many cores asks for: the
\* request rounded up to whole nodes
RequestedNodes(cores_requested) ==
    (cores_requested + BGQ_CORES_PER_NODE - 1) \div BGQ_CORES_PER_NODE

\* C6: a slot returned by the torus allocate starts at an offset that is a
\* multiple of the sub-block node count asked for, and its shape is the
\* shape-table entry of a supported size whose node count is the number of
\* nodes the call marked BUSY.
TorusAlignment ==
    (torus_call.op = "allocate" /\ ~torus_call.none)
    => LET n   == RequestedNodes(torus_call.request)
           off == corner2offset(torus_call.before, torus_call.slot.corner)
       IN  /\ off % n = 0
           /\ \E m \in BGQ_SUPPORTED_SUB_BLOCK_SIZES \cap DOMAIN shape_table :
                 /\ torus_call.slot.shape = shape_table[m]
                 /\ shape2num_nodes(torus_call.slot.shape) = m
                 /\ NewlyBusy = (off + 1)..(off + m)

(***************************************************************************)
(* Claims about the worker pipeline                                        *)
(***************************************************************************)

\* position of a state on the walk NEW -> PENDING_EXECUTION -> ALLOCATING ->
\* STAGING_INPUT -> EXECUTING -> STAGING_OUTPUT -> DONE | FAILED | CANCELED
StateRank(state) ==
    CASE state = STATE_NEW -> 0
      [] state = PENDING_EXECUTION -> 1
      [] state = ALLOCATING -> 2
      [] state = STAGING_INPUT -> 3
      [] state = EXECUTING -> 4
      [] state = STAGING_OUTPUT -> 5
      [] OTHER -> 6

\* C7: the states recorded in the store for a CU follow the walk of the CU
\* state machine; no recorded state lies before the one recorded just
\* before it.
StateMachineMonotonic ==
    \A u \in Units :
        \A i \in 1..(Len(cu[u].statehistory) - 1) :
            StateRank(cu[u].statehistory[i]) <= StateRank(cu[u].statehistory[i + 1])

\* C8: once the store holds DONE, FAILED or CANCELED for a CU, no later
\* write changes that state.
TerminalSticky ==
    [][\A u \in Units :
          cu[u].state \in TerminalStates => cu'[u].state = cu[u].state]_vars

\* C9: a slot obtained for a CU is released exactly once and never more often
\* than it was obtained; a CU recorded as EXECUTING holds one slot and a CU
\* recorded in a terminal state holds none.
SlotLifetime ==
    \A u \in Units :
        /\ ledger[u].released <= ledger[u].acquired
        /\ cu[u].state = EXECUTING => ledger[u].acquired - ledger[u].released = 1
        /\ cu[u].state \in TerminalStates => ledger[u].acquired = ledger[u].released

\* C10: every CU is spawned at most once, and every CU in a terminal state
\* (other than canceled before its start) has its started timestamp.
AtMostOnceSpawn ==
    \A u \in Units :
        /\ ledger[u].spawned <= 1
        /\ (/\ cu[u].state \in TerminalStates
            /\ ~(cu[u].state = CANCELED /\ ledger[u].spawned = 0))
           => cu[u].started

\* C10 as it holds: every CU is spawned at most once, and a CU in a terminal
\* state has a started timestamp exactly if its child was started.
AtMostOnceSpawnStarted ==
    \A u \in Units :
        /\ ledger[u].spawned <= 1
        /\ cu[u].state \in TerminalStates
           => (cu[u].started <=> ledger[u].spawned = 1)

\* C10 witness: one CU has ended DONE after its one spawn and another, given
\* a slot, has ended FAILED without a spawn
AtMostOnceSpawnWitness ==
    \E u, v \in Units :
        /\ cu[u].state = DONE /\ cu[u].started /\ ledger[u].spawned = 1
        /\ cu[v].state = FAILED /\ ~cu[v].started /\ ledger[v].spawned = 0
        /\ ledger[v].acquired = 1

(***************************************************************************)
(* Claims about progress, staging, the pilot's end and update order        *)
(***************************************************************************)

\* scenario S2: every CU asks for all the cores of the pilot
S2Scenario == \A u \in Units : cu_desc[u].cores = CoresPerNode

\* no CU is cancelled and no child exits with a non-zero code
S2Undisturbed ==
    /\ command_queue = <<>>
    /\ cuids_to_cancel = {}
    /\ \A u \in Units : proc[u] \notin {"exit1", "killed"}

ReachedDone(u) == DONE \in Range(cu[u].statehistory)

\* C11: with CUs that each need all the cores and whose children exit 0,
\* under fair scheduling every CU eventually reaches DONE: the exit of the
\* running CU is detected, its slot released and the re-queued CU started.
S2Progress ==
    (S2Scenario /\ []S2Undisturbed) => <>(\A u \in Units : ReachedDone(u))

\* the exec worker is through with a CU: it polls it no more and every slot
\* acquired for it is released
Finalized(u) ==
    /\ \A i \in 1..Len(running_tasks) : running_tasks[i].uid # u
    /\ ledger[u].released = ledger[u].acquired

\* C12: a cancel command that reaches the exec worker while the CU's child
\* runs leads to the CU being finalized (CANCELED if the child still runs
\* when it is polled) and its slot released.
S4Cancel ==
    \A u \in Units :
        (u \in cuids_to_cancel /\ proc[u] = "running") ~> Finalized(u)

\* C13: when an input directive of a CU fails, the stage-in worker has the
\* directive and the CU recorded as FAILED, performs none of the directives
\* after it, the CU is not on the execution queue and has no slot, and the
\* worker stays in its loop to serve the next CU.
StageinFailure ==
    (staging.worker = "StageinWorker" /\ staging.failed # 0)
    => /\ staging.reported[staging.failed] = FAILED
       /\ FAILED \in Range(ledger[staging.uid].transitions)
       /\ \A i \in (staging.failed + 1)..Len(staging.directives) :
              ~staging.performed[i]
       /\ staging.uid \notin Range(execution_queue)
       /\ ledger[staging.uid].acquired = 0
       /\ stagein_alive

\* C14: a directive is reported DONE only if its side effect took place.
DirectiveCompletion ==
    \A i \in 1..Len(staging.reported) :
        staging.reported[i] = DONE => staging.performed[i]

\* C15: a pilot whose main thread left because the walltime is used up, by
\* the supervisor's check or by the walltime alarm, is recorded as DONE.
WalltimeDone ==
    main_thread.cause \in {"walltime", "SIGALRM"} => pilot.state = DONE

\* C16: once the walltime has ended the pilot no child runs any more, and
\* every CU whose child was started has been given a final state.
WalltimeCancelsRunning ==
    main_thread.cause = "walltime"
    => \A u \in Units :
           /\ proc[u] # "running"
           /\ ledger[u].spawned > 0
              => Range(ledger[u].transitions) \cap TerminalStates # {}

\* the exit status the termination cause calls for
ExitStatus(cause) ==
    CASE cause = "walltime" -> 0
      [] cause = "SIGINT" -> 2
      [] cause = "SIGALRM" -> 3
      [] OTHER -> 1

\* C17: the agent exits with the status of its termination cause: 0 after
\* a clean DONE, 1 after FAILED, 2 after SIGINT, 3 after the walltime alarm.
ExitCodes ==
    (main_thread.phase = "exited" /\ main_thread.cause # COMMAND_CANCEL_PILOT)
    => main_thread.exit_code = <<ExitStatus(main_thread.cause)>>

\* C18: the pilot's state is written by the main thread of the agent only,
\* and a final state is written at most once.
PilotSingleWriter ==
    /\ \A i \in 1..Len(pilot.writers) :
           pilot.writers[i] \in {"launcher", "Agent", "__main__"}
    /\ Cardinality({i \in 1..Len(pilot.statehistory) :
                        pilot.statehistory[i] \in TerminalStates}) <= 1

\* C19: the staging workers, which meet no errors but those of single CUs,
\* stay in their loops, and the pilot is FAILED only after the exec worker
\* lost the store.
ErrorPropagation ==
    /\ stagein_alive
    /\ stageout_alive
    /\ pilot.state = FAILED => ~exec_alive

IsPrefix(s, t) == Len(s) <= Len(t) /\ SubSeq(t, 1, Len(s)) = s

\* C20: the states the store has recorded for a CU, in the order it
\* recorded them, are the first of the CU's transitions in the order the
\* agent made them.
UpdateOrdering ==
    \A u \in Units :
        IsPrefix(Tail(cu[u].statehistory), ledger[u].transitions)

\* C21: a bulk of the update worker whose execution keeps failing is not
\* dropped silently: once its execution has raised MaxAttempts times the
\* pilot is FAILED.
UpdaterStoreFailure ==
    executed >= MaxAttempts => pilot.state = FAILED

StagingIdempotence ==
    (/\ staging.first # <<>>
     /\ \A i \in DOMAIN staging.directives :
            staging.directives[i].action \in {LINK, COPY})
    => /\ staging.failed = 0
       /\ staging.reported = staging.first[1]
       /\ stagein_alive /\ stageout_alive

\* C24: constructing the base launch-method class raises
\* NotImplementedError, and a launch method that was constructed has a
\* launch command.
LaunchMethodConstruction ==
    /\ (lm.variant = "LaunchMethod" /\ lm.constructed # "no") =>
           (lm.constructed = "raised" /\ lm.raised = "NotImplementedError")
    /\ lm.constructed = "object" => lm.launch_command # <<>>

\* the construction of the base class was attempted and raised
LaunchMethodConstructionWitness ==
    /\ lm.constructed = "raised"
    /\ lm.variant = "LaunchMethod"

\* C25: a CU whose input directives the stage-in worker has all performed
\* is on the execution queue, or the exec worker has taken it from there.
StageinHandOver ==
    (staging.worker = "StageinWorker" /\ staging.failed = 0)
    => \/ staging.uid \in Range(execution_queue)
       \/ ledger[staging.uid].acquired > 0

\* C26: a CU that is in STAGING_OUTPUT (its child exited with code 0 and it
\* has agent-side output directives) does not stay there forever: the
\* stage-out worker gets it, and the CU leaves STAGING_OUTPUT.
StageoutHandOver ==
    \A u \in Units : (cu[u].state = STAGING_OUTPUT) ~> (cu[u].state # STAGING_OUTPUT)

\* the cores of a slot are all FREE in a core map
SlotFree(sl, task_slots) ==
    \A e \in Range(task_slots) :
        \E i \in DOMAIN sl : sl[i].node = e[1] /\ sl[i].cores[e[2] + 1] = FREE

\* C27: in a pass of _check_running, every running CU whose child has exited
\* with a code other than 0 becomes FAILED and nothing of it is put on the
\* output staging queue, and every one whose child has exited with 0 and
\* that has no output directives becomes DONE; in both cases the pass
\* records the exit code, releases the slot and takes the CU off the
\* running tasks.
FinalizationByExitCode ==
    [][ExecWorkerCheckRunning =>
          \A i \in 1..Len(running_tasks) :
              LET task == running_tasks[i]
                  u == task.uid
                  ret_code == poll(proc[u])
                  outputs == cu_desc[u].Agent_Output_Directives
              IN  ret_code # NoExit =>
                      /\ ret_code # <<0>> =>
                             /\ cu'[u].state = FAILED
                             /\ \A j \in 1..Len(output_staging_queue') :
                                    output_staging_queue'[j].cu_id # u
                      /\ (ret_code = <<0>> /\ outputs = <<>>) => cu'[u].state = DONE
                      /\ (ret_code # <<0>> \/ outputs = <<>>) =>
                             /\ cu'[u].exit_code = ret_code
                             /\ SlotFree(pilot_slots', task.opaque_slot)
                             /\ ledger'[u].released = ledger[u].released + 1
                             /\ \A j \in 1..Len(running_tasks') :
                                    running_tasks'[j].uid # u]_vars

\* one pass has finalized a CU with output directives whose child exited
\* with code 1 and a CU without output directives whose child exited with 0
FinalizationByExitCodeWitness ==
    \E u, v \in Units :
        /\ cu[u].state = FAILED /\ cu[u].exit_code = <<1>>
        /\ cu_desc[u].Agent_Output_Directives # <<>>
        /\ cu[v].state = DONE /\ cu[v].exit_code = <<0>>
        /\ cu_desc[v].Agent_Output_Directives = <<>>
        /\ running_tasks = <<>>
        /\ ledger[u].released = 1 /\ ledger[v].released = 1
        /\ output_staging_queue = <<>>

InQueue(queue, u) == Cardinality({i \in 1..Len(queue) : queue[i] = u})

\* a pass of _check_units
CheckUnitsPass == \E sandbox_ok \in [Units -> BOOLEAN] : check_units(sandbox_ok)

\* a CU that was pulled is not PENDING_EXECUTION again, and a pass of
\* _check_units puts no CU on a queue that it did not find PENDING_EXECUTION
PulledOnce ==
    /\ [](\A u \in Units : ALLOCATING \in Range(cu[u].statehistory)
                              => cu[u].state # PENDING_EXECUTION)
    /\ [][CheckUnitsPass =>
             \A u \in Units :
                 cu[u].state # PENDING_EXECUTION =>
                     /\ InQueue(stagein_queue', u) = InQueue(stagein_queue, u)
                     /\ InQueue(execution_queue', u) = InQueue(execution_queue, u)]_vars

\* C29: every CU found in PENDING_EXECUTION is pulled once, becomes
\* ALLOCATING, and is put on exactly one queue: the stage-in queue if it has
\* agent-side input directives, the execution queue if not.
SupervisorRouting ==
    /\ PulledOnce
    /\ [][CheckUnitsPass =>
             \A u \in Units :
                 cu[u].state = PENDING_EXECUTION =>
                     /\ cu'[u].state = ALLOCATING
                     /\ InQueue(stagein_queue', u) - InQueue(stagein_queue, u)
                            = IF cu_desc[u].Agent_Input_Directives THEN 1 ELSE 0
                     /\ InQueue(execution_queue', u) - InQueue(execution_queue, u)
                            = IF cu_desc[u].Agent_Input_Directives THEN 0 ELSE 1]_vars

\* the update request a pass has queued last for a CU is one to FAILED
SortFailed(u) ==
    \E i \in 1..Len(update_queue') :
        /\ i > Len(update_queue)
        /\ update_queue'[i] = UpdateRequest(u, FAILED, TRUE)

\* C29 as it holds: every CU found in PENDING_EXECUTION is pulled once and
\* becomes ALLOCATING; if its sandbox can be made it is put on exactly one
\* queue, the stage-in queue if it has agent-side input directives, the
\* execution queue if not; if not, it is put on no queue and an update to
\* FAILED is queued for it.
SupervisorRoutingSorted ==
    /\ PulledOnce
    /\ [][CheckUnitsPass =>
             \A u \in Units :
                 cu[u].state = PENDING_EXECUTION =>
                     /\ cu'[u].state = ALLOCATING
                     /\ InQueue(stagein_queue', u) - InQueue(stagein_queue, u)
                            = IF cu_desc[u].Agent_Input_Directives /\ ~SortFailed(u)
                              THEN 1 ELSE 0
                     /\ InQueue(execution_queue', u) - InQueue(execution_queue, u)
                            = IF ~cu_desc[u].Agent_Input_Directives /\ ~SortFailed(u)
                              THEN 1 ELSE 0]_vars

\* C29 witness: one pass has pulled a CU with input directives and a CU
\* without: both are ALLOCATING, one on each queue
SupervisorRoutingWitness ==
    \E u, v \in Units :
        /\ cu_desc[u].Agent_Input_Directives /\ ~cu_desc[v].Agent_Input_Directives
        /\ cu[u].state = ALLOCATING /\ cu[v].state = ALLOCATING
        /\ stagein_queue = <<u>> /\ execution_queue = <<v>>
        /\ Len(update_queue) = 2

\* C30: a pass of _check_commands reads and wipes the command list; a
\* Cancel_Pilot in it marks the pilot CANCELED and ends the supervisor in
\* that pass; a pass over Keep_Alive alone changes no CU and no slot; and
\* every Cancel_Compute_Unit written to the pilot document is in the end in
\* the exec worker's cancel set.
CommandDispatch ==
    /\ [][check_commands =>
             /\ commands' = <<>>
             /\ Command(COMMAND_CANCEL_PILOT, "") \in Range(commands) =>
                    /\ pilot'.state = CANCELED
                    /\ main_thread'.phase = "exited"
             /\ commands = <<Command(COMMAND_KEEP_ALIVE, "")>> =>
                    UNCHANGED <<cu, pilot_slots, running_tasks, proc, ledger,
                                command_queue, cuids_to_cancel>>]_vars
    /\ \A u \in Units :
           (Command(COMMAND_CANCEL_COMPUTE_UNIT, u) \in Range(commands))
               ~> (u \in cuids_to_cancel)

\* the commands of the list that _check_commands gets to: those ahead of the
\* first Cancel_Pilot, none when the pilot's state is CANCELING
Handled(cmds) ==
    IF pilot.state = CANCELING THEN {}
    ELSE {i \in 1..Len(cmds) : \A j \in 1..i : cmds[j].type # COMMAND_CANCEL_PILOT}

\* C30 as it holds: a pass of _check_commands reads and wipes the command
\* list; a Cancel_Pilot in it marks the pilot CANCELED and ends the
\* supervisor in that pass, and the commands behind it in the list are
\* wiped unhandled; a pass over Keep_Alive alone changes no CU and no slot;
\* every Cancel_Compute_Unit ahead of the first Cancel_Pilot is put on the
\* exec worker's command queue in that pass, and what is on that queue is in
\* the end in the exec worker's cancel set.
CommandDispatchInOrder ==
    /\ [][check_commands =>
             /\ commands' = <<>>
             /\ Command(COMMAND_CANCEL_PILOT, "") \in Range(commands) =>
                    /\ pilot'.state = CANCELED
                    /\ main_thread'.phase = "exited"
             /\ commands = <<Command(COMMAND_KEEP_ALIVE, "")>> =>
                    UNCHANGED <<cu, pilot_slots, running_tasks, proc, ledger,
                                command_queue, cuids_to_cancel>>
             /\ \A u \in Units :
                    InQueue(command_queue', u) - InQueue(command_queue, u) =
                        Cardinality({i \in Handled(commands) :
                            commands[i] = Command(COMMAND_CANCEL_COMPUTE_UNIT, u)})]_vars
    /\ \A u \in Units : (u \in Range(command_queue)) ~> (u \in cuids_to_cancel)

\* C30 witness: a list with a Cancel_Compute_Unit ahead of a Cancel_Pilot
\* was read: the pilot is CANCELED, the supervisor has ended, and the CU is
\* in the exec worker's cancel set
CommandDispatchWitness ==
    \E u \in Units :
        /\ u \in cuids_to_cancel
        /\ pilot.state = CANCELED
        /\ main_thread.phase = "exited"
        /\ main_thread.cause = COMMAND_CANCEL_PILOT
        /\ commands = <<>>
        /\ command_queue = <<>>

(***************************************************************************)
(* Part VI: the UpdateWorker on its own, with requests for more than one   *)
(* collection                                                              *)
(***************************************************************************)
BULK_COLLECTION_TIME == 1

\* the collections a request can name: update_request.get('cbase', '.cu')
CBASE_CU == ".cu"
CBASE_PILOT == ".p"
Cbases == {CBASE_CU, CBASE_PILOT}

\* the requests on the queue, in the order they were put: the i-th one is
\* for the collection cbases[i]
UpdateRequests(cbases) == [i \in DOMAIN cbases |-> [cbase |-> cbases[i], id |-> i]]

\* a cinfo as run() creates it: no bulk yet, last = now
NewCinfo == [bulk |-> <<>>, coll |-> "", age |-> 0]

InitUpdateWorker ==
    /\ SchedIdle
    /\ DetIdle
    /\ PipelineIdle
    /\ StageIdle
    /\ NoSubAgents
    /\ NoSpawner
    /\ NoIBRun
    /\ NoFTW
    /\ \E n \in 1..MaxRequests : \E cbases \in [1..n -> Cbases] :
           update_worker = [queue |-> UpdateRequests(cbases), cinfo |-> <<>>,
                            coll |-> "",
                            sent |-> [c \in Cbases |-> <<>>]]

\* timed_bulk_execute(cinfo): nothing without a bulk; a bulk older than
\* BULK_COLLECTION_TIME is executed, on the collection it was initialized
\* on, and last, bulk and uids are reset
timed_bulk_execute_cinfo(w, cname) ==
    LET cinfo == w.cinfo[cname] IN
    IF cinfo.bulk = <<>>
    THEN w
    ELSE IF cinfo.age > BULK_COLLECTION_TIME
         THEN [w EXCEPT !.sent[cinfo.coll] = Append(@, cinfo.bulk),
                        !.cinfo[cname] = NewCinfo]
         ELSE w

\* the Queue.Empty branch: timed_bulk_execute for every cinfo
RECURSIVE timed_bulk_execute_all(_, _)
timed_bulk_execute_all(w, cnames) ==
    IF cnames = {} THEN w
    ELSE LET cname == CHOOSE c \in cnames : TRUE IN
         timed_bulk_execute_all(timed_bulk_execute_cinfo(w, cname), cnames \ {cname})

\* run(), a request was got: the cinfo of its collection is created if
\* there is none, and only then is the local coll bound; a cinfo without a
\* bulk gets coll.initialize_ordered_bulk_op(); the request is added to the
\* bulk; timed_bulk_execute(cinfo)
UpdateWorkerRequest ==
    /\ update_worker.queue # <<>>
    /\ LET w == update_worker
           update_request == Head(w.queue)
           cname == update_request.cbase
           created == cname \notin DOMAIN w.cinfo
           coll == IF created THEN cname ELSE w.coll
           cinfo == IF created THEN NewCinfo ELSE w.cinfo[cname]
           bulk_coll == IF cinfo.bulk = <<>> THEN coll ELSE cinfo.coll
           pushed == [cinfo EXCEPT !.bulk = Append(@, update_request),
                                   !.coll = bulk_coll]
           w1 == [queue |-> Tail(w.queue),
                  cinfo |-> [c \in DOMAIN w.cinfo \cup {cname} |->
                                IF c = cname THEN pushed ELSE w.cinfo[c]],
                  coll |-> coll,
                  sent |-> w.sent]
       IN update_worker' = timed_bulk_execute_cinfo(w1, cname)
    /\ UNCHANGED <<schedVars, detVars, agentVars, agent_0, lm, spawner, ibrun, ftw>>

\* run(), Queue.Empty
UpdateWorkerEmpty ==
    /\ update_worker.queue = <<>>
    /\ update_worker' = timed_bulk_execute_all(update_worker, DOMAIN update_worker.cinfo)
    /\ UNCHANGED <<schedVars, detVars, agentVars, agent_0, lm, spawner, ibrun, ftw>>

\* time passes: every bulk gets older (an age above BULK_COLLECTION_TIME is
\* not told from a greater one)
TimePasses ==
    /\ update_worker' = [update_worker EXCEPT !.cinfo =
           [c \in DOMAIN @ |->
               [@[c] EXCEPT !.age = IF @ > BULK_COLLECTION_TIME THEN @ ELSE @ + 1]]]
    /\ UNCHANGED <<schedVars, detVars, agentVars, agent_0, lm, spawner, ibrun, ftw>>

NextUpdateWorker ==
    \/ UpdateWorkerRequest
    \/ UpdateWorkerEmpty
    \/ TimePasses

SpecUpdateWorker == InitUpdateWorker /\ [][NextUpdateWorker]_vars

\* the worker's loop keeps running and time keeps passing
UpdateWorkerFairness ==
    /\ WF_vars(UpdateWorkerRequest)
    /\ WF_vars(UpdateWorkerEmpty)
    /\ WF_vars(TimePasses)

SpecUpdateWorkerFair == SpecUpdateWorker /\ UpdateWorkerFairness

\* the requests a collection was sent, over all executed bulks
RECURSIVE Executed(_)
Executed(bulks) == IF bulks = <<>> THEN {} ELSE Range(Head(bulks)) \cup Executed(Tail(bulks))

\* the bulk of a collection, none without a cinfo
BulkOf(c) ==
    IF c \in DOMAIN update_worker.cinfo THEN update_worker.cinfo[c].bulk ELSE <<>>

\* the request is in a bulk
InBulk(r) == \E c \in DOMAIN update_worker.cinfo : r \in Range(update_worker.cinfo[c].bulk)

TorusRequestSizing ==
    torus_call.op = "allocate"
    => LET n == RequestedNodes(torus_call.request)
       IN  /\ ~torus_call.none => Cardinality(NewlyBusy) = n
           /\ (/\ torus_call.request < BGQ_CORES_PER_NODE
               /\ \E i \in DOMAIN torus_call.before : torus_call.before[i].status = FREE)
              => (~torus_call.none /\ Cardinality(NewlyBusy) = 1)
           /\ n \notin BGQ_SUPPORTED_SUB_BLOCK_SIZES
              => (torus_call.none /\ torus_block = torus_call.before)

\* C37: a torus allocate that returns no slot leaves the status of every
\* node as it was, and no node is BUSY without an outstanding slot on it.
FailedTorusAllocation ==
    /\ (torus_call.op = "allocate" /\ torus_call.none)
       => torus_block = torus_call.before
    /\ \A i \in DOMAIN torus_block :
           torus_block[i].status = BUSY => TorusHolders(i - 1) # {}

(***************************************************************************)
(* Further claims about the continuous scheduler                           *)
(***************************************************************************)

\* position of a core entry in the concatenation of the nodes' core lists
CorePosition(sl, entry) ==
    LET i == CHOOSE n \in DOMAIN sl : sl[n].node = entry[1]
    IN  (i - 1) * CoresPerNode + entry[2]

\* C35: a slot returned by the continuous allocate for k cores lists exactly
\* k core entries, no entry twice, the entries are one contiguous run of the
\* concatenated core lists, and each of them was FREE before the call.
ExactSlotSize ==
    (cont_call.op = "allocate" /\ ~cont_call.none)
    => LET sl == cont_call.before
           k == cont_call.request
           entries == Range(cont_call.task_slots)
           positions == {CorePosition(sl, e) : e \in entries}
       IN  /\ Len(cont_call.task_slots) = k
           /\ Cardinality(entries) = k
           /\ \E first \in 0..(Len(sl) * CoresPerNode) : positions = first..(first + k - 1)
           /\ \A e \in entries :
                  \E i \in DOMAIN sl : /\ sl[i].node = e[1]
                                       /\ sl[i].cores[e[2] + 1] = FREE

(***************************************************************************)
(* Part VII: the argument string of a launch script                        *)
(***************************************************************************)
DOUBLE_QUOTE == "\""
SINGLE_QUOTE == "'"
BACKSLASH == "\\"
BLANK == " "

\* an argument is a sequence of characters
Characters == {"a", DOUBLE_QUOTE, SINGLE_QUOTE}

RECURSIVE SeqsUpTo(_, _)
SeqsUpTo(S, n) ==
    IF n = 0 THEN {<<>>}
    ELSE LET shorter == SeqsUpTo(S, n - 1)
         IN  shorter \cup {Append(s, x) : s \in shorter, x \in S}

Arguments == SeqsUpTo(Characters, MaxArgLen)

InitSpawner ==
    /\ SchedIdle
    /\ DetIdle
    /\ PipelineIdle
    /\ StageIdle
    /\ NoSubAgents
    /\ NoUpdateWorker
    /\ NoIBRun
    /\ NoFTW
    /\ \E arguments \in SeqsUpTo(Arguments, MaxArgs) :
           spawner = [arguments |-> arguments, task_args_string |-> <<>>,
                      called |-> FALSE]

\* arg.replace('"', '\\"')
RECURSIVE replace_double_quotes(_)
replace_double_quotes(arg) ==
    IF arg = <<>> THEN <<>>
    ELSE (IF Head(arg) = DOUBLE_QUOTE THEN <<BACKSLASH, DOUBLE_QUOTE>> ELSE <<Head(arg)>>)
         \o replace_double_quotes(Tail(arg))

\* arg[0] == arg[-1] == "'"
outer_single_quotes(arg) == arg[1] = SINGLE_QUOTE /\ arg[Len(arg)] = SINGLE_QUOTE

\* the loop over task.arguments: empty arguments are skipped, the double
\* quotes of every other one are escaped, and then it is appended as it is
\* if it is between single quotes, else between double quotes
RECURSIVE task_args(_)
task_args(arguments) ==
    IF arguments = <<>> THEN <<>>
    ELSE LET arg == replace_double_quotes(Head(arguments))
         IN  (IF Head(arguments) = <<>> THEN <<>>
              ELSE IF outer_single_quotes(arg) THEN arg \o <<BLANK>>
              ELSE <<DOUBLE_QUOTE>> \o arg \o <<DOUBLE_QUOTE, BLANK>>)
             \o task_args(Tail(arguments))

\* SpawnerPopen.spawn, "Task Arguments (if any)"
Spawn ==
    /\ ~spawner.called
    /\ spawner' = [spawner EXCEPT !.task_args_string = task_args(spawner.arguments),
                                  !.called = TRUE]
    /\ UNCHANGED <<schedVars, detVars, agentVars, agent_0, lm, update_worker, ibrun, ftw>>

\* the launch script is written once per spawn
SpawnDone ==
    /\ spawner.called
    /\ UNCHANGED vars

NextSpawner ==
    \/ Spawn
    \/ SpawnDone

SpecSpawner == InitSpawner /\ [][NextSpawner]_vars

\* what the argument string is to hold for one argument: nothing for an
\* empty one, the argument itself if it is between single quotes, else the
\* argument between double quotes with every double quote in it escaped once
QuotedArgument(arg) ==
    IF arg = <<>> THEN <<>>
    ELSE IF outer_single_quotes(arg) THEN arg \o <<BLANK>>
    ELSE <<DOUBLE_QUOTE>> \o replace_double_quotes(arg) \o <<DOUBLE_QUOTE, BLANK>>

RECURSIVE QuotedArguments(_)
QuotedArguments(arguments) ==
    IF arguments = <<>> THEN <<>>
    ELSE QuotedArgument(Head(arguments)) \o QuotedArguments(Tail(arguments))

\* C33: the argument string of a launch script is the concatenation, in
\* order, of: nothing for an empty argument, the unchanged argument for one
\* between outer single quotes, and for every other one the argument between
\* double quotes with each double quote in it escaped exactly once.
ArgumentQuoting ==
    spawner.called => spawner.task_args_string = QuotedArguments(spawner.arguments)

(***************************************************************************)
(* Part VIII: the IBRUN launch methods, the one of the agent script        *)
(* (LaunchMethodIBRUN, offset from the scheduler's slots2offset) and the   *)
(* one of launch_method/ibrun.py (offset from the core maps of the slot)   *)
(***************************************************************************)

\* a pre_exec command: any other command, or one that holds
\* 'TACC_TASKS_PER_NODE=<value>'
OtherCommand == [tacc |-> FALSE, value |-> 0]
TaccCommand(value) == [tacc |-> TRUE, value |-> value]
PreExecCommands == {OtherCommand, TaccCommand(1), TaccCommand(CoresPerNode + 1)}

\* the contiguous runs of cores of one node, as first core and length
CoreRuns == {<<first, len>> \in (0..(CoresPerNode - 1)) \X (1..CoresPerNode) :
                first + len <= CoresPerNode}

\* core maps of a slot node: none, one core per process over a run, or one
\* process with all cores of a run
CoreMaps ==
    {<<>>}
    \cup {[p \in 1..r[2] |-> <<r[1] + p - 1>>] : r \in CoreRuns}
    \cup {<<[t \in 1..r[2] |-> r[1] + t - 1]>> : r \in CoreRuns}

\* the nodes of a slot, in the order of the node list
RECURSIVE SlotsOn(_)
SlotsOn(node_list) ==
    IF node_list = <<>> THEN {<<>>}
    ELSE LET rest == SlotsOn(Tail(node_list))
         IN  rest \cup {<<[uid |-> Head(node_list), core_map |-> cm]>> \o s :
                           cm \in CoreMaps, s \in rest}

InitIBRun ==
    /\ SchedIdle
    /\ DetIdle
    /\ PipelineIdle
    /\ StageIdle
    /\ NoSubAgents
    /\ NoUpdateWorker
    /\ NoSpawner
    /\ NoFTW
    /\ \E nodes \in SlotsOn(DeclaredNodes) \ {<<>>},
          pre_exec \in SeqsUpTo(PreExecCommands, 2),
          cpu_processes \in 1..2, arguments \in {"", "args"} :
           ibrun = [called |-> FALSE,
                    node_list |-> DeclaredNodes,
                    cores_per_node |-> CoresPerNode,
                    slots |-> [nodes |-> nodes],
                    cud |-> [executable |-> "exec", cpu_processes |-> cpu_processes,
                             arguments |-> arguments, pre_exec |-> pre_exec],
                    command |-> <<>>, agent_command |-> <<>>]

\* the first TACC_TASKS_PER_NODE of pre_exec, None (0) without one
RECURSIVE tacc_tasks_per_node(_)
tacc_tasks_per_node(pre_exec) ==
    IF pre_exec = <<>> THEN 0
    ELSE IF Head(pre_exec).tacc THEN Head(pre_exec).value
    ELSE tacc_tasks_per_node(Tail(pre_exec))

\* the offsets one slot node adds at that index
node_offsets(slot_node, index) ==
    {(slot_node.core_map[m][1] \div Len(slot_node.core_map[m])) + index :
        m \in {j \in DOMAIN slot_node.core_map : slot_node.core_map[j] # <<>>}}

\* the loop over self._node_list: index grows by cpn per node of the list
RECURSIVE ibrun_offsets(_, _, _, _)
ibrun_offsets(node_list, nodes, cpn, index) ==
    IF node_list = <<>> THEN {}
    ELSE UNION {node_offsets(nodes[n], index) :
                    n \in {j \in DOMAIN nodes : nodes[j].uid = Head(node_list)}}
         \cup ibrun_offsets(Tail(node_list), nodes, cpn, index + cpn)

\* "%s %s" % (task_exec, task_argstr), or task_exec alone
task_command(executable, arguments) ==
    IF arguments # "" THEN <<executable, arguments>> ELSE <<executable>>

\* "%s -n %s -o %d %s"
ibrun_command(cores, offset, command) ==
    [exc |-> "", line |-> <<"ibrun", "-n", cores, "-o", offset>> \o command]

\* IBRun.construct_command of launch_method/ibrun.py; min() of an empty list
\* raises ValueError
construct_command(node_list, cores_per_node, cu_slots, cud) ==
    LET tacc == tacc_tasks_per_node(cud.pre_exec)
        cpn == IF tacc # 0 THEN tacc ELSE cores_per_node
        offsets == ibrun_offsets(node_list, cu_slots.nodes, cpn, 0)
    IN  IF offsets = {} THEN [exc |-> "ValueError", line |-> <<>>]
        ELSE ibrun_command(cud.cpu_processes, SetMin(offsets),
                           task_command(cud.executable, cud.arguments))

\* the slot as the agent script holds it: one node:core entry per core
RECURSIVE core_map_entries(_, _)
core_map_entries(uid, core_map) ==
    IF core_map = <<>> THEN <<>>
    ELSE [c \in DOMAIN Head(core_map) |-> <<uid, Head(core_map)[c]>>]
         \o core_map_entries(uid, Tail(core_map))

RECURSIVE task_slots_of(_)
task_slots_of(nodes) ==
    IF nodes = <<>> THEN <<>>
    ELSE core_map_entries(Head(nodes).uid, Head(nodes).core_map)
         \o task_slots_of(Tail(nodes))

\* SchedulerContinuous.slots2offset: position of the first entry's node in
\* the scheduler's slots times cores_per_node, plus the entry's core
slots2offset(all_slots, task_slots, cores_per_node) ==
    LET first_slot == task_slots[1]
        all_slots_slot_index ==
            SetMin({i \in DOMAIN all_slots : all_slots[i].node = first_slot[1]}) - 1
    IN  all_slots_slot_index * cores_per_node + first_slot[2]

\* LaunchMethodIBRUN.construct_command of the agent script; task_slots[0] of
\* an empty slot raises IndexError
agent_construct_command(node_list, cores_per_node, cu_slots, cud) ==
    LET task_slots == task_slots_of(cu_slots.nodes)
    IN  IF task_slots = <<>> THEN [exc |-> "IndexError", line |-> <<>>]
        ELSE ibrun_command(cud.cpu_processes,
                           slots2offset(ContConfigure(node_list, cores_per_node),
                                        task_slots, cores_per_node),
                           task_command(cud.executable, cud.arguments))

\* the launch method builds the command of the CU
ConstructCommand ==
    /\ ~ibrun.called
    /\ ibrun' = [ibrun EXCEPT
           !.called = TRUE,
           !.command = construct_command(ibrun.node_list, ibrun.cores_per_node,
                                         ibrun.slots, ibrun.cud),
           !.agent_command = agent_construct_command(ibrun.node_list,
                                 ibrun.cores_per_node, ibrun.slots, ibrun.cud)]
    /\ UNCHANGED <<schedVars, detVars, agentVars, agent_0, lm, update_worker, spawner, ftw>>

\* the command is built once per launch
ConstructDone ==
    /\ ibrun.called
    /\ UNCHANGED vars

NextIBRun ==
    \/ ConstructCommand
    \/ ConstructDone

SpecIBRun == InitIBRun /\ [][NextIBRun]_vars

\* position of a node in the LRMS node list, from 0
NodeIndex(node_list, uid) == SetMin({i \in DOMAIN node_list : node_list[i] = uid}) - 1

\* the OFFSET of a slot: the least (first_core // len(core_map)) +
\* node_index * cpn over the non-empty core maps of its nodes
SlotOffsets(node_list, nodes, cpn) ==
    {(nodes[n].core_map[m][1] \div Len(nodes[n].core_map[m]))
        + NodeIndex(node_list, nodes[n].uid) * cpn :
        <<n, m>> \in {p \in (DOMAIN nodes) \X (1..CoresPerNode) :
                        /\ p[2] \in DOMAIN nodes[p[1]].core_map
                        /\ nodes[p[1]].core_map[p[2]] # <<>>}}

\* C34: the command of an IBRUN launch is 'ibrun -n <cpu_processes> -o
\* <OFFSET> exec args', OFFSET being the least (first_core // len(core_map))
\* + node_index * cpn over the non-empty core maps of the slot's nodes, with
\* cpn the TACC_TASKS_PER_NODE of pre_exec if there is one and cores_per_node
\* otherwise; every slot on nodes of the node list gets a command.
IBRunOffset ==
    ibrun.called
    => LET given == {j \in DOMAIN ibrun.cud.pre_exec : ibrun.cud.pre_exec[j].tacc}
           cpn == IF given = {} THEN ibrun.cores_per_node
                  ELSE ibrun.cud.pre_exec[SetMin(given)].value
           offsets == SlotOffsets(ibrun.node_list, ibrun.slots.nodes, cpn)
       IN  /\ ibrun.command.exc = ""
           /\ ibrun.agent_command.exc = ""
           /\ offsets # {}
           /\ LET expected == ibrun_command(ibrun.cud.cpu_processes, SetMin(offsets),
                                  task_command(ibrun.cud.executable, ibrun.cud.arguments))
              IN  /\ ibrun.command = expected
                  /\ ibrun.agent_command = expected

(***************************************************************************)
(* Further claims about the worker pipeline                                *)
(***************************************************************************)

\* C36: the state of every CU document in the store is the state of the last
\* entry of its statehistory: no write sets the one without appending to the
\* other.
StateAndHistoryAgree ==
    \A u \in Units :
        /\ cu[u].statehistory # <<>>
        /\ cu[u].state = cu[u].statehistory[Len(cu[u].statehistory)]

(***************************************************************************)
(* Part III.i  A CU that asks for more cores than the pilot has            *)
(***************************************************************************)

\* the cores of the pilot
PilotCores == CoresPerNode

\* one of the two CUs, or both, ask for one core more than the pilot has;
\* no directives
OversizedWorkloads ==
    {d \in [Units -> [cores : {1, CoresPerNode, PilotCores + 1},
                      Agent_Input_Directives : {FALSE},
                      Agent_Output_Directives : {<<>>}]] :
        \E u \in Units : d[u].cores > PilotCores}

InitOversized ==
    /\ SchedIdle
    /\ DetIdle
    /\ PipelineStartWith(OversizedWorkloads)
    /\ StageStart
    /\ SubIdle

\* the threads are scheduled as in SpecFair
SpecOversized == InitOversized /\ [][NextFair]_vars /\ Fairness

Oversized(u) == cu_desc[u].cores > PilotCores

RunningUids == {running_tasks[i].uid : i \in DOMAIN running_tasks}

\* C38: a CU that asks for more cores than the pilot has is never given a
\* slot or spawned and never gets a terminal state, and once on the
\* execution queue it stays there; a CU on the queue that fits is spawned in
\* the end, and every child that has exited is finalized in the end.
OversizedRequests ==
    /\ [](\A u \in Units : Oversized(u) =>
              /\ proc[u] = "none"
              /\ ledger[u].acquired = 0
              /\ cu[u].state \notin TerminalStates)
    /\ [][\A u \in Units : (Oversized(u) /\ u \in Range(execution_queue))
                               => u \in Range(execution_queue')]_vars
    /\ \A u \in Units :
           (~Oversized(u) /\ u \in Range(execution_queue)) ~> (proc[u] # "none")
    /\ \A u \in Units :
           (proc[u] \in {"exit0", "exit1"}) ~> (u \notin RunningUids)

(***************************************************************************)
(* Part III.j  Cancel commands for CUs that have not been started          *)
(***************************************************************************)

\* CUs without directives
InitCancel ==
    /\ InitAgent
    /\ \A u \in Units : ~cu_desc[u].Agent_Input_Directives

\* cancel_unit(u) is found in the pilot document before the CU is spawned,
\* one command at a time: the exec worker reads it at the top of its next
\* iteration, which is before it takes the CU from the execution queue
CancelBeforeStart(u) ==
    /\ proc[u] = "none"
    /\ command_queue = <<>>
    /\ AgentCheckCommands(u)

NextCancel ==
    \/ \E u \in Units : Submit(u)
    \/ AgentRunStart
    \/ AgentCheckUnits
    \/ \E u \in Units : CancelBeforeStart(u)
    \/ \E time_is_up \in BOOLEAN : UpdateWorkerGet(time_is_up, TRUE)
    \/ UpdateWorkerIdle(TRUE)
    \/ ExecWorkerLaunch("launched")
    \/ QueueFeeder
    \/ ExecWorkerRequeue
    \/ ExecWorkerCheckRunning
    \/ \E u \in Units, status \in {"exit0", "exit1"} : ChildExit(u, status)

SpecCancel == InitCancel /\ [][NextCancel]_vars

\* C39: a cancel request that has reached the exec worker stays in its
\* cancel set; a CU is CANCELED only after it was spawned, and the iteration
\* that takes a CU with a cancel request from the queue launches it if there
\* is a slot for it; every poll of the running tasks that finds the child of
\* such a CU still running kills it, records CANCELED and drops the task.
CancelBeforeSpawn ==
    /\ [][\A u \in Units : u \in cuids_to_cancel => u \in cuids_to_cancel']_vars
    /\ [](\A u \in Units : cu[u].state = CANCELED => ledger[u].spawned = 1)
    /\ [][(/\ ExecWorkerStep
           /\ VisibleQueue # <<>>
           /\ Head(execution_queue) \in cuids_to_cancel'
           /\ ~cont_allocate_slot(pilot_slots, cu_desc[Head(execution_queue)].cores,
                                  CoresPerNode).ret.none)
          => proc'[Head(execution_queue)] = "running"]_vars
    /\ [][ExecWorkerCheckRunning
          => \A u \in Units :
                 (/\ u \in RunningUids
                  /\ proc[u] = "running"
                  /\ u \in cuids_to_cancel')
                 => /\ proc'[u] = "killed"
                    /\ cu'[u].state = CANCELED
                    /\ u \notin {running_tasks'[i].uid : i \in DOMAIN running_tasks'}]_vars

\* C39 witness: a CU whose cancel request was read before it was taken from
\* the queue was spawned, killed and CANCELED, and its request is still in
\* the cancel set
CancelBeforeSpawnWitness ==
    \E u \in Units :
        /\ u \in cuids_to_cancel
        /\ ledger[u].spawned = 1
        /\ proc[u] = "killed"
        /\ cu[u].state = CANCELED
        /\ u \notin RunningUids

(***************************************************************************)
(* Part IX: the InputFileTransferWorkers of a unit manager, working on one *)
(* units collection                                                        *)
(***************************************************************************)

\* a staging status that is not set
NULL == "None"

\* the worker numbers
FTWorkers == 1..NumWorkers

\* what happens to a directive: the copy works, the copy raises (caught
\* around input_file.copy), or saga.filesystem.File raises (caught by the
\* handler of the whole CU)
TransferOutcomes == {"copied", "copy_raised", "file_raised"}

\* the FTW input directives of a CU
TransferLists ==
    UNION {{[i \in 1..n |-> [state |-> PENDING, outcome |-> o[i]]] :
               o \in [1..n -> TransferOutcomes]} : n \in 1..MaxDirectives}

\* a worker at the top of its loop
PollingWorker == [pc |-> "poll", cu |-> "", sd |-> 0, state |-> STAGING_INPUT]

\* the CUs as the unit manager inserted them: FTW input directives PENDING,
\* agent input directives or none
InitFTW ==
    /\ SchedIdle
    /\ DetIdle
    /\ PipelineIdle
    /\ StageIdle
    /\ NoSubAgents
    /\ NoUpdateWorker
    /\ NoSpawner
    /\ NoIBRun
    /\ \E directives \in [Units -> TransferLists],
          agent_status \in [Units -> {NULL, EXECUTING}] :
           ftw = [units |-> [u \in Units |->
                                [state |-> STATE_NEW,
                                 statehistory |-> <<STATE_NEW>>,
                                 FTW_Input_Status |-> PENDING,
                                 FTW_Input_Directives |-> directives[u],
                                 Agent_Input_Status |-> agent_status[u],
                                 Agent_Input_Pending |-> agent_status[u] = EXECUTING,
                                 claimed |-> 0,
                                 transfer_failed |-> FALSE,
                                 was_final |-> FALSE,
                                 promoted_from |-> <<>>]],
                  workers |-> [w \in FTWorkers |-> PollingWorker]]

\* "Code below is only to be run by the first or only worker", and the CU
\* that was canceled skips the remainder of the loop
after_transfers(w, state) ==
    IF w > 1 \/ state = CANCELED THEN PollingWorker
    ELSE [pc |-> "update", cu |-> "", sd |-> 0, state |-> state]

\* find_and_modify of a CU with FTW_Input_Status PENDING: the document that
\* matches is set to EXECUTING and STAGING_INPUT in one operation
claim(doc) ==
    [doc EXCEPT !.FTW_Input_Status = EXECUTING,
                !.state = STAGING_INPUT,
                !.statehistory = Append(@, STAGING_INPUT),
                !.claimed = @ + 1]

\* a claim that leaves the status as it was
claim_unmarked(doc) ==
    [doc EXCEPT !.state = STAGING_INPUT,
                !.statehistory = Append(@, STAGING_INPUT),
                !.claimed = @ + 1]

\* run(), the find_and_modify at the top of the loop
FTWPoll(w) ==
    /\ ftw.workers[w].pc = "poll"
    /\ LET pending == {u \in Units : ftw.units[u].FTW_Input_Status = PENDING}
       IN  IF pending = {}
           THEN ftw' = [ftw EXCEPT !.workers[w] = after_transfers(w, STAGING_INPUT)]
           ELSE \E u \in pending :
                    ftw' = [ftw EXCEPT
                               !.units[u] = claim(@),
                               !.workers[w] = [pc |-> "transfer", cu |-> u, sd |-> 1,
                                               state |-> STAGING_INPUT]]
    /\ UNCHANGED <<schedVars, detVars, agentVars, agent_0, lm, update_worker, spawner, ibrun>>

\* the failure handler's update: the dict has the key "$push" twice, the
\* log entry replaces the statehistory entry
failed_update(doc) == [doc EXCEPT !.state = FAILED, !.was_final = TRUE]

\* the update after a directive was handled: the directive is 'Done'
\* whether or not the copy raised
directive_done(doc, sd, copied) ==
    IF doc.FTW_Input_Status = EXECUTING /\ doc.FTW_Input_Directives[sd].state = PENDING
    THEN [doc EXCEPT !.FTW_Input_Directives[sd].state = DONE,
                     !.transfer_failed = @ \/ ~copied]
    ELSE [doc EXCEPT !.transfer_failed = @ \/ ~copied]

\* run(), the loop over input_staging, one directive
FTWTransfer(w) ==
    /\ ftw.workers[w].pc = "transfer"
    /\ LET me == ftw.workers[w]
           doc == ftw.units[me.cu]
           outcome == doc.FTW_Input_Directives[me.sd].outcome
           last == me.sd = Len(doc.FTW_Input_Directives)
       IN  IF doc.state = CANCELED
           THEN ftw' = [ftw EXCEPT !.workers[w] = after_transfers(w, CANCELED)]
           ELSE IF outcome = "file_raised"
           THEN ftw' = [ftw EXCEPT !.units[me.cu] = failed_update(@),
                                   !.workers[w] = after_transfers(w, me.state)]
           ELSE ftw' = [ftw EXCEPT
                           !.units[me.cu] = directive_done(@, me.sd, outcome = "copied"),
                           !.workers[w] = IF last THEN after_transfers(w, me.state)
                                          ELSE [me EXCEPT !.sd = @ + 1]]
    /\ UNCHANGED <<schedVars, detVars, agentVars, agent_0, lm, update_worker, spawner, ibrun>>

\* no directive of the list is EXECUTING or PENDING
none_pending(directives) ==
    \A i \in DOMAIN directives : directives[i].state \notin {EXECUTING, PENDING}

\* run(), "Check to see if there are more pending Directives": the statuses
\* of the CUs whose directives are all handled become DONE
FTWUpdate(w) ==
    /\ ftw.workers[w].pc = "update"
    /\ ftw' = [ftw EXCEPT
           !.units = [u \in Units |->
               [@[u] EXCEPT
                   !.FTW_Input_Status =
                       IF @ = EXECUTING /\ none_pending(ftw.units[u].FTW_Input_Directives)
                       THEN DONE ELSE @,
                   !.Agent_Input_Status =
                       IF @ = EXECUTING /\ ~ftw.units[u].Agent_Input_Pending
                       THEN DONE ELSE @]],
           !.workers[w].pc = "promote"]
    /\ UNCHANGED <<schedVars, detVars, agentVars, agent_0, lm, update_worker, spawner, ibrun>>

\* the query of the last find_and_modify
promotable(doc) ==
    /\ doc.Agent_Input_Status \in {NULL, DONE}
    /\ doc.FTW_Input_Status \in {NULL, DONE}
    /\ doc.state = STAGING_INPUT

\* a query that does not look at the statuses
promotable_any(doc) == doc.state = STAGING_INPUT

\* run(), "mark the CU PendingExecution": one document that matches
FTWPromote(w) ==
    /\ ftw.workers[w].pc = "promote"
    /\ LET ready == {u \in Units : promotable(ftw.units[u])}
       IN  IF ready = {}
           THEN ftw' = [ftw EXCEPT !.workers[w] = PollingWorker]
           ELSE \E u \in ready :
                    ftw' = [ftw EXCEPT
                               !.units[u].state = PENDING_EXECUTION,
                               !.units[u].statehistory = Append(@, PENDING_EXECUTION),
                               !.units[u].promoted_from =
                                   [state |-> ftw.units[u].state,
                                    Agent_Input_Status |-> ftw.units[u].Agent_Input_Status,
                                    FTW_Input_Status |-> ftw.units[u].FTW_Input_Status],
                               !.workers[w] = PollingWorker]
    /\ UNCHANGED <<schedVars, detVars, agentVars, agent_0, lm, update_worker, spawner, ibrun>>

\* the unit manager cancels a CU that has not reached the agent
FTWCancel(u) ==
    /\ ftw.units[u].state \in {STATE_NEW, STAGING_INPUT}
    /\ ftw' = [ftw EXCEPT !.units[u].state = CANCELED,
                          !.units[u].statehistory = Append(@, CANCELED),
                          !.units[u].was_final = TRUE]
    /\ UNCHANGED <<schedVars, detVars, agentVars, agent_0, lm, update_worker, spawner, ibrun>>

\* the agent's stage-in worker has reported the agent input directives DONE
AgentInputStaged(u) ==
    /\ ftw.units[u].Agent_Input_Pending
    /\ ftw' = [ftw EXCEPT !.units[u].Agent_Input_Pending = FALSE]
    /\ UNCHANGED <<schedVars, detVars, agentVars, agent_0, lm, update_worker, spawner, ibrun>>

NextFTW ==
    \/ \E w \in FTWorkers : FTWPoll(w)
    \/ \E w \in FTWorkers : FTWTransfer(w)
    \/ \E w \in FTWorkers : FTWUpdate(w)
    \/ \E w \in FTWorkers : FTWPromote(w)
    \/ \E u \in Units : FTWCancel(u)
    \/ \E u \in Units : AgentInputStaged(u)

SpecFTW == InitFTW /\ [][NextFTW]_vars

\* C40: every CU is claimed by at most one worker; a CU was moved to
\* PENDING_EXECUTION from STAGING_INPUT with both input statuses unset or
\* DONE; and no CU that was CANCELED or FAILED, or one of whose transfers
\* failed, is in PENDING_EXECUTION.
InputTransferPromotion ==
    \A u \in Units :
        LET doc == ftw.units[u]
        IN  /\ doc.claimed <= 1
            /\ doc.promoted_from # <<>>
               => /\ doc.promoted_from.state = STAGING_INPUT
                  /\ doc.promoted_from.Agent_Input_Status \in {NULL, DONE}
                  /\ doc.promoted_from.FTW_Input_Status \in {NULL, DONE}
            /\ doc.state = PENDING_EXECUTION
               => /\ ~doc.was_final
                  /\ ~doc.transfer_failed

====
